---- MODULE Spec2Model ----
(***************************************************************************)
(* Incident investigation workflow.                                        *)
(*                                                                         *)
(*   SpecGraph : the compiled StateGraph of src/agent/graph.py (start,     *)
(*               log_agent, metrics_agent, deploy_agent, reconciler) run   *)
(*               by the Pregel superstep executor, with the three agents'  *)
(*               analyze methods and InvestigationAgent.synthesize.        *)
(*   SpecPoll  : the submit / poll-until-terminal loops of                 *)
(*               src/agent/agents/commander.py.                            *)
(*   SpecTasks : one task or function called on its own, over bounded     *)
(*               sets of arguments and backend behaviours; the ingestion   *)
(*               handler of src/agent/app.py among them.                   *)
(*   SpecNode  : analyze_cloudwatch_log / analyze_log_node of commander.py:*)
(*               the three pipeline steps in sequence, then the two output *)
(*               builders.                                                 *)
(*                                                                         *)
(* Python dicts are functions with a string domain, lists are sequences,   *)
(* an exception leaving a function is the field raised = TRUE.             *)
(***************************************************************************)
EXTENDS Integers, Sequences, FiniteSets, TLC

VARIABLES
  \* ---- graph.py: one workflow run
  payload,      \* the log_payload handed to invoke()
  backend,      \* per agent, what its LLM backend did on the agent's latest call
  state,        \* the AgentState channels that hold a value
  active,       \* nodes scheduled in the current superstep
  running,      \* nodes started and not yet returned
  finished,     \* nodes that returned in the current superstep
  writes,       \* pending channel writes of the superstep, in completion order
  runs,         \* how many times each node has been executed
  step,         \* superstep number
  runStatus,    \* "idle" | "running" | "done" | "failed"
  order,        \* node completions of the whole run, in order
  report        \* what InvestigationAgent.synthesize returned for the run's results

VARIABLES
  \* ---- commander.py: one call of a pipeline function with a client
  fn,           \* "classify" | "hypothesis" | "possibilities"
  pattern,      \* the pattern argument (hypothesis, possibilities)
  pc,           \* "call" | "test" | "poll" | "sleep" | "done"
  now,          \* time.time(), in seconds
  start_time,   \* the local start_time
  submitResp,   \* what research() did: "none" yet, "raise", "no_id", "empty_id", "id"
  polls,        \* get_research calls issued
  sleeps,       \* time.sleep calls made
  observed,     \* the last poll: "none", "pending", "completed", "failed", "raised"
  lastResp,     \* the response of the poll that ended the loop
  lastPollDur,  \* how long the last get_research call took
  outcome,      \* the return path taken
  ret,          \* the value returned
  deadlineExpired     \* the host's run-level deadline has passed

VARIABLES
  \* ---- one analysis task called on its own
  task,         \* which task is called
  tArgs,        \* the arguments of a function called on its own
  tLogs,        \* classify_cloudwatch_logs_groq: log_json["logs"]
  tResults,     \* classify_cloudwatch_logs_groq: results so far
  tStatus,      \* "idle" | "running" | "decoded" | "returned" | "raised"
  tBackendRaised, \* a backend call of the task raised
  tRet          \* what the task returned

VARIABLES
  \* ---- commander.py: one call of analyze_cloudwatch_log
  nClient,      \* the tavily_client argument: "given" | "none"
  nApiKey,      \* os.getenv("TAVILY_API_KEY"): "set" | "unset" | "empty"
  nPc,          \* "idle" | "submit" | "poll" | "outputs" | "returned" | "raised"
  nFn,          \* the pipeline step being run
  nState,       \* the state dict of analyze_log_node
  nSubmits,     \* research() calls made
  nInFlight,    \* jobs submitted whose poll loop has not returned
  nTrace,       \* submit and return events, in order
  nError,       \* the exception that left analyze_log_node, "" if none
  nRet          \* what analyze_cloudwatch_log returned

graphVars == <<payload, backend, state, active, running, finished, writes,
               runs, step, runStatus, order, report>>

pollVars == <<fn, pattern, pc, now, start_time, submitResp, polls, sleeps, observed,
              lastResp, lastPollDur, outcome, ret, deadlineExpired>>

taskVars == <<task, tArgs, tLogs, tResults, tStatus, tBackendRaised, tRet>>

nodeVars == <<nClient, nApiKey, nPc, nFn, nState, nSubmits, nInFlight, nTrace,
              nError, nRet>>

vars == <<graphVars, pollVars, taskVars, nodeVars>>

(***************************************************************************)
(* Python helpers                                                          *)
(***************************************************************************)
EmptyDict == [k \in {} |-> 0]

\* d.get(k, default)
Get(d, k, default) == IF k \in DOMAIN d THEN d[k] ELSE default

\* x in list
InList(x, list) == \E i \in 1..Len(list) : list[i] = x

\* dict.update with the two dicts' roles swapped
UpdateKeepsOld(d, w) == [k \in (DOMAIN d) \cup (DOMAIN w) |->
                          IF k \in DOMAIN d THEN d[k] ELSE w[k]]

\* dict.update
Update(d, w) == [k \in (DOMAIN d) \cup (DOMAIN w) |->
                   IF k \in DOMAIN w THEN w[k] ELSE d[k]]

(***************************************************************************)
(* str.lower() and substring tests on the texts the model uses.  A text is *)
(* one of the strings below; Lower and HasSubstr are the tables of what    *)
(* Python's str.lower() and `in` give on them.                             *)
(***************************************************************************)
Lower(s) ==
  CASE s = "Out Of Memory"                        -> "out of memory"
    [] s = "Memory limit exceeded"                -> "memory limit exceeded"
    [] s = "Connection Error"                     -> "connection error"
    [] s = "High MemoryUsed detected (Fallback)"  -> "high memoryused detected (fallback)"
    [] s = "MemoryUsed"                           -> "memoryused"
    [] s = "Metric Alert: MemoryUsed"             -> "metric alert: memoryused"
    [] s = "Metric Alert: CPU high"               -> "metric alert: cpu high"
    [] s = "Metric Alert: High MemoryUsed detected (Fallback)"
                                -> "metric alert: high memoryused detected (fallback)"
    [] s = "CPU high"                             -> "cpu high"
    [] s = "Recent deployment changes with High risk"
                                -> "recent deployment changes with high risk"
    [] s = "Recent deployment changes with Medium risk"
                                -> "recent deployment changes with medium risk"
    [] OTHER                                      -> s

HasSubstr(s, kw) ==
  CASE kw = "memory" -> s \in {"out of memory", "memory limit exceeded",
                               "high memoryused detected (fallback)", "memoryused",
                               "metric alert: memoryused",
                               "metric alert: high memoryused detected (fallback)"}
    [] kw = "error"  -> s \in {"connection error"}
    [] OTHER         -> FALSE

(***************************************************************************)
(* An LLM answer (response.content) is a sequence of tokens: prose, a      *)
(* ```json fence, a ``` fence, or the text of one JSON object.             *)
(***************************************************************************)
Tok(t)    == [t |-> t, v |-> EmptyDict]
ObjTok(v) == [t |-> "obj", v |-> v]

FirstIdx(s, kinds) ==
  IF \E i \in 1..Len(s) : s[i].t \in kinds
  THEN CHOOSE i \in 1..Len(s) : /\ s[i].t \in kinds
                                /\ \A j \in 1..(i-1) : s[j].t \notin kinds
  ELSE 0

\* content.split(sep)[0]
SplitPart0(s, kinds) ==
  LET i == FirstIdx(s, kinds) IN IF i = 0 THEN s ELSE SubSeq(s, 1, i - 1)

\* content.split(sep)[1], defined when sep occurs in content
SplitPart1(s, kinds) ==
  LET i == FirstIdx(s, kinds) IN SplitPart0(SubSeq(s, i + 1, Len(s)), kinds)

\* "```" is a substring of "```json" as well
FenceJson == {"fence_json"}
FenceAny  == {"fence_json", "fence"}

\* the code-fence handling shared by LogAgent, DeployAgent and InvestigationAgent
StripFences(content) ==
  IF FirstIdx(content, FenceJson) # 0
  THEN SplitPart0(SplitPart1(content, FenceJson), FenceAny)
  ELSE IF FirstIdx(content, FenceAny) # 0
       THEN SplitPart0(SplitPart1(content, FenceAny), FenceAny)
       ELSE content

\* json.loads: the text must be exactly one JSON value
JsonLoadsOk(text) == Len(text) = 1 /\ text[1].t = "obj"
JsonLoads(text)   == text[1].v

(***************************************************************************)
(* What a ChatGroq backend may do on chain.invoke: raise, or answer.       *)
(***************************************************************************)
LogObjOOM   == [issues |-> <<"out of memory">>, summary |-> "oom"]
LogObjMem   == [issues |-> <<"Memory limit exceeded">>, summary |-> "mem"]
LogObjClean == [issues |-> <<>>, summary |-> "clean"]

LogBackends == {"raise", "garbage", "bare_oom", "fenced_mem", "fenced_clean",
                "prose_then_obj"}

DepObjMem  == [changes |-> {"memory_size"}, risk_level |-> "High"]
DepObjNone == [changes |-> {}, risk_level |-> "Low"]

DeployBackends == {"unreadable", "raise", "garbage", "fenced_memsize", "bare_none"}

MetricsBackends == {"raise", "ok_memused", "ok_healthy", "ok_critical"}

LLMRaises(b) == b = "raise"

LLMContent(b) ==
  CASE b = "garbage"        -> <<Tok("prose")>>
    [] b = "bare_oom"       -> <<ObjTok(LogObjOOM)>>
    [] b = "fenced_mem"     -> <<Tok("prose"), Tok("fence_json"), ObjTok(LogObjMem),
                                 Tok("fence"), Tok("prose")>>
    [] b = "fenced_clean"   -> <<Tok("fence"), ObjTok(LogObjClean), Tok("fence")>>
    [] b = "prose_then_obj" -> <<Tok("prose"), ObjTok(LogObjOOM)>>
    [] b = "fenced_memsize" -> <<Tok("fence_json"), ObjTok(DepObjMem), Tok("fence")>>
    [] b = "bare_none"      -> <<ObjTok(DepObjNone)>>
    [] OTHER                -> <<>>

(***************************************************************************)
(* The agents                                                              *)
(***************************************************************************)
\* a Python value that is not a dict (a str, None): it has no .get
NotADict(v) == [not_a_dict |-> v]
IsDict(v)   == "not_a_dict" \notin DOMAIN v

\* log_payload.get('logEvents', []) and e.get(...) for each event: both are
\* attribute lookups that raise AttributeError on a value that is not a dict
LogsTextRaises(log_payload) ==
  \/ ~IsDict(log_payload)
  \/ LET log_events == Get(log_payload, "logEvents", <<>>) IN
       \E i \in 1..Len(log_events) : ~IsDict(log_events[i])

\* LogAgent.analyze: the events are read before the try; the LLM call and
\* the parsing of its answer are inside try/except.  Yields [raised, out].
LogAgent_analyze(log_payload, b) ==
  IF LogsTextRaises(log_payload)
  THEN [raised |-> TRUE, out |-> EmptyDict]
  ELSE [raised |-> FALSE,
        out |-> IF LLMRaises(b)
                THEN [error |-> "backend", issues |-> <<>>]
                ELSE LET content == StripFences(LLMContent(b)) IN
                     IF JsonLoadsOk(content)
                     THEN JsonLoads(content)
                     ELSE [error |-> "JSONDecodeError", issues |-> <<>>]]

\* DeployAgent.analyze: the diff inputs are read first, then the LLM is asked
DeployAgent_analyze(b) ==
  IF b = "unreadable"
  THEN [error |-> "FileNotFoundError"]
  ELSE IF LLMRaises(b)
       THEN [error |-> "backend", changes |-> {}]
       ELSE LET content == StripFences(LLMContent(b)) IN
            IF JsonLoadsOk(content)
            THEN JsonLoads(content)
            ELSE [error |-> "JSONDecodeError", changes |-> {}]

\* MetricsAgent.analyze: graph.py imports the class, src/ does not define it.
\* By the task contract it yields a result or an error-carrying result and
\* never raises; nothing more is assumed of the error-carrying result.
MetricsAgent_analyze(log_payload, b) ==
  CASE b = "ok_memused"  -> [status |-> "degraded", alerts |-> <<"MemoryUsed">>]
    [] b = "ok_healthy"  -> [status |-> "healthy", alerts |-> <<>>]
    [] b = "ok_critical" -> [status |-> "critical", alerts |-> <<"CPU high">>]
    [] OTHER             -> [error |-> "backend", status |-> "degraded", alerts |-> <<>>]

\* a result that carries an error (Degraded)
IsDegraded(result) == "error" \in DOMAIN result

(***************************************************************************)
(* graph.py: the nodes.  A node yields [raised, out]: out is the dict it   *)
(* returns, which the executor writes to the state channels.               *)
(***************************************************************************)
Returns(out) == [raised |-> FALSE, out |-> out]
Raise        == [raised |-> TRUE, out |-> EmptyDict]

start_node(st) == Returns(st)

run_log_agent(st) ==
  LET r == LogAgent_analyze(Get(st, "log_payload", EmptyDict), backend.log_agent)
  IN IF r.raised THEN Raise ELSE Returns([log_analysis |-> r.out])

run_metrics_agent(st) ==
  Returns([metrics_analysis |->
             MetricsAgent_analyze(Get(st, "log_payload", EmptyDict), backend.metrics_agent)])

RunDeployAgentReturnsState(st) ==
  Returns(Update(st, [deployment_analysis |-> DeployAgent_analyze(backend.deploy_agent)]))

run_deploy_agent(st) ==
  Returns([deployment_analysis |-> DeployAgent_analyze(backend.deploy_agent)])

DiagnoseBySubstring(log_analysis, metrics_analysis, deployment_analysis) ==
  IF \/ \E i \in 1..Len(Get(log_analysis, "issues", <<>>)) :
          HasSubstr(Lower(Get(log_analysis, "issues", <<>>)[i]), "memory")
     \/ InList("MemoryUsed", Get(metrics_analysis, "alerts", <<>>))
  THEN IF "memory_size" \in Get(deployment_analysis, "changes", {})
       THEN "Potential Memory Exhaustion likely caused by recent configuration change (memory reduction)."
       ELSE "Potential Memory Exhaustion"
  ELSE "Unknown Issue"

Diagnose(log_analysis, metrics_analysis, deployment_analysis) ==
  IF \/ InList("out of memory", Get(log_analysis, "issues", <<>>))
     \/ InList("MemoryUsed", Get(metrics_analysis, "alerts", <<>>))
  THEN IF "memory_size" \in Get(deployment_analysis, "changes", {})
       THEN "Potential Memory Exhaustion likely caused by recent configuration change (memory reduction)."
       ELSE "Potential Memory Exhaustion"
  ELSE "Unknown Issue"

ReconcileMissingKeyRaises(st) ==
  IF {"log_analysis", "metrics_analysis", "deployment_analysis"} \subseteq DOMAIN st
     /\ "issues" \in DOMAIN st["log_analysis"]
     /\ "alerts" \in DOMAIN st["metrics_analysis"]
     /\ "changes" \in DOMAIN st["deployment_analysis"]
  THEN Returns([final_diagnosis |->
         [status |-> "Investigation Complete",
          diagnosis |-> Diagnose(st["log_analysis"], st["metrics_analysis"],
                                 st["deployment_analysis"]),
          details |-> [log_analysis |-> st["log_analysis"],
                       metrics_analysis |-> st["metrics_analysis"],
                       deployment_analysis |-> st["deployment_analysis"]]]])
  ELSE Raise

reconcile_findings(st) ==
  LET log_analysis        == Get(st, "log_analysis", EmptyDict)
      metrics_analysis    == Get(st, "metrics_analysis", EmptyDict)
      deployment_analysis == Get(st, "deployment_analysis", EmptyDict)
  IN Returns([final_diagnosis |->
       [status |-> "Investigation Complete",
        diagnosis |-> Diagnose(log_analysis, metrics_analysis, deployment_analysis),
        details |-> [log_analysis |-> log_analysis,
                     metrics_analysis |-> metrics_analysis,
                     deployment_analysis |-> deployment_analysis]]])

(***************************************************************************)
(* investigation_agent.py                                                  *)
(***************************************************************************)
SynthBackends == {"raise", "garbage", "fenced_report", "bare_report",
                  "partial_report", "evidence_report", "list_report"}

SynthReport ==
  [status |-> "Investigation Complete", severity |-> "High",
   root_cause |-> "llm root cause", diagnosis |-> "llm diagnosis",
   correlation |-> "llm correlation", affected_components |-> <<"lambda">>,
   recommendations |-> <<[priority |-> "Immediate", action |-> "a", rationale |-> "r"]>>,
   confidence_level |-> "High"]

\* a report that leaves fields out, and one that brings its own evidence field
SynthPartialReport == [severity |-> "Medium", root_cause |-> "llm root cause"]
SynthEvidenceReport ==
  Update(SynthReport, [supporting_evidence |-> [summary |-> "as summarised by the model"]])

SynthContent(b) ==
  CASE b = "garbage"         -> <<Tok("prose")>>
    [] b = "fenced_report"   -> <<Tok("prose"), Tok("fence_json"), ObjTok(SynthReport),
                                  Tok("fence")>>
    [] b = "bare_report"     -> <<ObjTok(SynthReport)>>
    [] b = "partial_report"  -> <<ObjTok(SynthPartialReport)>>
    [] b = "evidence_report" -> <<Tok("fence"), ObjTok(SynthEvidenceReport), Tok("fence")>>
    [] b = "list_report"     -> <<Tok("arr")>>
    [] OTHER                 -> <<>>

\* json.loads gave a list: report["supporting_evidence"] = ... is a TypeError
JsonLoadsList(text) == Len(text) = 1 /\ text[1].t = "arr"

\* f"Metric Alert: {alert}"
MetricAlertText(alert) ==
  CASE alert = "MemoryUsed" -> "Metric Alert: MemoryUsed"
    [] alert = "CPU high"   -> "Metric Alert: CPU high"
    [] alert = "High MemoryUsed detected (Fallback)"
                            -> "Metric Alert: High MemoryUsed detected (Fallback)"

\* f"Recent deployment changes with {deploy_risk} risk"
DeployRiskText(risk) ==
  CASE risk = "High"   -> "Recent deployment changes with High risk"
    [] risk = "Medium" -> "Recent deployment changes with Medium risk"

MapSeq(F(_), s) == [i \in 1..Len(s) |-> F(s[i])]

MentionsFirstOnly(list, kw) == list # <<>> /\ HasSubstr(Lower(list[1]), kw)

Mentions(list, kw) == \E i \in 1..Len(list) : HasSubstr(Lower(list[i]), kw)

\* severity after the log-issue rule
SeverityAfterLogs(log_issues) ==
  IF log_issues # <<>> /\ (Mentions(log_issues, "memory") \/ Mentions(log_issues, "error"))
  THEN "High" ELSE "Low"

SeverityAfterMetricsResets(severity, metrics_analysis) ==
  IF Get(metrics_analysis, "alerts", <<>>) # <<>>
  THEN IF Get(metrics_analysis, "status", "") = "critical"
       THEN "Critical"
       ELSE IF Get(metrics_analysis, "status", "") = "degraded"
            THEN "High"
            ELSE "Low"
  ELSE severity

\* severity after the metrics-alert rule
SeverityAfterMetrics(severity, metrics_analysis) ==
  IF Get(metrics_analysis, "alerts", <<>>) # <<>>
  THEN IF Get(metrics_analysis, "status", "") = "critical"
       THEN "Critical"
       ELSE IF Get(metrics_analysis, "status", "") = "degraded" /\ severity # "Critical"
            THEN "High"
            ELSE severity
  ELSE severity

SeverityAfterDeployOverrides(severity, deploy_risk) ==
  IF deploy_risk \in {"High", "Medium"} THEN "Medium" ELSE severity

\* severity after the deployment-risk rule
SeverityAfterDeploy(severity, deploy_risk) ==
  IF deploy_risk \in {"High", "Medium"} /\ severity = "Low" THEN "Medium" ELSE severity

_fallback_synthesis(log_analysis, metrics_analysis, deployment_analysis, error) ==
  LET log_issues     == Get(log_analysis, "issues", <<>>)
      metrics_alerts == Get(metrics_analysis, "alerts", <<>>)
      deploy_risk    == Get(deployment_analysis, "risk_level", "Low")
      deploy_changes == Get(deployment_analysis, "changes", {})
      issues == log_issues \o MapSeq(MetricAlertText, metrics_alerts)
                  \o (IF deploy_risk \in {"High", "Medium"}
                      THEN <<DeployRiskText(deploy_risk)>> ELSE <<>>)
      severity == SeverityAfterDeploy(
                    SeverityAfterMetrics(SeverityAfterLogs(log_issues), metrics_analysis),
                    deploy_risk)
      root_cause ==
        IF Mentions(issues, "memory")
        THEN IF "memory_size" \in deploy_changes
             THEN "Memory exhaustion likely caused by recent memory_size reduction in deployment"
             ELSE "Memory exhaustion detected - check for memory leaks or increased load"
        ELSE "Unable to determine root cause - manual investigation required"
  IN Returns(
       [status |-> "Investigation Complete (Fallback Mode)",
        severity |-> severity,
        root_cause |-> root_cause,
        diagnosis |-> <<"Detected", Len(issues),
                        "issue(s) across log, metrics, and deployment analysis">>,
        correlation |-> "Automated correlation failed - manual review recommended",
        affected_components |-> <<"Unknown - requires manual investigation">>,
        recommendations |-> <<[priority |-> "Immediate",
                               action |-> "Review the raw findings in supporting_evidence",
                               rationale |-> "LLM synthesis failed, manual analysis needed"]>>,
        confidence_level |-> "Low",
        additional_investigation_needed |-> <<"Full manual review required">>,
        fallback_reason |-> error,
        supporting_evidence |-> [log_analysis |-> log_analysis,
                                 metrics_analysis |-> metrics_analysis,
                                 deployment_analysis |-> deployment_analysis]])

SynthesizeFallbackOnDegraded(log_analysis, metrics_analysis, deployment_analysis, b) ==
  IF \/ LLMRaises(b)
     \/ \E r \in {log_analysis, metrics_analysis, deployment_analysis} :
          "error" \in DOMAIN r
  THEN _fallback_synthesis(log_analysis, metrics_analysis, deployment_analysis, "backend")
  ELSE LET content == StripFences(SynthContent(b)) IN
       IF JsonLoadsOk(content)
       THEN Returns(Update(JsonLoads(content),
              [supporting_evidence |-> [log_analysis |-> log_analysis,
                                        metrics_analysis |-> metrics_analysis,
                                        deployment_analysis |-> deployment_analysis]]))
       ELSE _fallback_synthesis(log_analysis, metrics_analysis, deployment_analysis,
                                "JSONDecodeError")

synthesize(log_analysis, metrics_analysis, deployment_analysis, b) ==
  IF LLMRaises(b)
  THEN _fallback_synthesis(log_analysis, metrics_analysis, deployment_analysis, "backend")
  ELSE LET content == StripFences(SynthContent(b)) IN
       IF JsonLoadsOk(content)
       THEN Returns(Update(JsonLoads(content),
              [supporting_evidence |-> [log_analysis |-> log_analysis,
                                        metrics_analysis |-> metrics_analysis,
                                        deployment_analysis |-> deployment_analysis]]))
       ELSE IF JsonLoadsList(content)
       THEN _fallback_synthesis(log_analysis, metrics_analysis, deployment_analysis,
                                "TypeError")
       ELSE _fallback_synthesis(log_analysis, metrics_analysis, deployment_analysis,
                                "JSONDecodeError")

(***************************************************************************)
(* graph.py: the graph.  set_entry_point(key) is add_edge(START, key), so  *)
(* both calls (lines 74 and 81) leave an edge from START.                  *)
(***************************************************************************)
START == "__start__"
END   == "__end__"

Nodes == {"start", "log_agent", "metrics_agent", "deploy_agent", "reconciler"}
AnalysisNodes == {"log_agent", "metrics_agent", "deploy_agent"}

Edges == { <<START, "log_agent">>,
           <<START, "start">>,
           <<"start", "log_agent">>,
           <<"start", "metrics_agent">>,
           <<"start", "deploy_agent">>,
           <<"log_agent", "reconciler">>,
           <<"metrics_agent", "reconciler">>,
           <<"deploy_agent", "reconciler">>,
           <<"reconciler", END>> }

NodeFn(n, st) ==
  CASE n = "start"         -> start_node(st)
    [] n = "log_agent"     -> run_log_agent(st)
    [] n = "metrics_agent" -> run_metrics_agent(st)
    [] n = "deploy_agent"  -> run_deploy_agent(st)
    [] n = "reconciler"    -> reconcile_findings(st)

\* the nodes an edge leads to from the nodes that just ran
Triggered(srcs) == {m \in Nodes : \E n \in srcs : <<n, m>> \in Edges}

Payloads == { [cpu_utilization |-> "10%", memory_utilization |-> "95%"],
              [logEvents |-> <<[timestamp |-> 1,
                                message |-> "OutOfMemoryError in worker"]>>,
               memory_utilization |-> "10%"] }

\* what analyze cannot read: a str, None, an event that is not a dict
UnreadablePayloads == { NotADict("OutOfMemoryError in worker"),
                        NotADict("None"),
                        [logEvents |-> <<NotADict("not a dict")>>] }

GraphIdle ==
  /\ payload = EmptyDict
  /\ backend = EmptyDict
  /\ state = EmptyDict
  /\ active = {} /\ running = {} /\ finished = {}
  /\ writes = <<>>
  /\ runs = [n \in Nodes |-> 0]
  /\ step = 0
  /\ runStatus = "idle"
  /\ order = <<>>
  /\ report = EmptyDict

(***************************************************************************)
(* commander.py: the text of a research answer is a sequence of tokens:    *)
(* prose, "{", "}", or one "key": value member of an object.               *)
(***************************************************************************)
LB == [t |-> "lb"]
RB == [t |-> "rb"]
Prose == [t |-> "prose"]
KV(k, v) == [t |-> "kv", k |-> k, v |-> v]
\* a member whose value json.loads does not build: an array nested deeper than
\* the recursion limit ('"a": ' + '[' * 100000, RecursionError), or an integer
\* of more digits than the interpreter's limit ('"a": ' + '1' * 5000, ValueError)
KVRaises(k, exc) == [t |-> "kv_raises", k |-> k, exc |-> exc]

\* a probability p/q is the pair [num |-> p, den |-> q]; raw values are in hundredths
Prob(n, d) == [num |-> n, den |-> d]

RawPossibilities ==
  << [cause |-> "c1", probability |-> Prob(60, 100), severity |-> "high", action |-> "a1"],
     [cause |-> "c2", probability |-> Prob(20, 100), severity |-> "critical", action |-> "a2"] >>

AnswerNames == {"", "prose", "pattern_json", "hyp_json", "poss_json", "empty_obj",
                "unbalanced", "rb_before_lb", "two_objs", "deep_obj"}

AnswerText(a) ==
  CASE a = "prose"        -> <<Prose>>
    [] a = "pattern_json" -> <<Prose, LB, KV("timeout", "meaning"), RB, Prose>>
    [] a = "hyp_json"     -> <<LB, KV("hypothesis", "H1"), RB>>
    [] a = "poss_json"    -> <<Prose, LB, KV("possibilities", RawPossibilities), RB>>
    [] a = "empty_obj"    -> <<LB, RB>>
    [] a = "unbalanced"   -> <<LB, KV("memory", "meaning")>>
    [] a = "rb_before_lb" -> <<RB, Prose, LB>>
    [] a = "two_objs"     -> <<LB, KV("a", "x"), RB, Prose, LB, KV("b", "y"), RB>>
    [] a = "deep_obj"     -> <<Prose, LB, KVRaises("a", "RecursionError"), RB>>
    [] OTHER              -> <<>>

HasTok(text, t) == \E i \in 1..Len(text) : text[i].t = t
Find(text, t)   == CHOOSE i \in 1..Len(text) :
                     text[i].t = t /\ \A j \in 1..(i-1) : text[j].t # t
RFind(text, t)  == CHOOSE i \in 1..Len(text) :
                     text[i].t = t /\ \A j \in (i+1)..Len(text) : text[j].t # t

\* json.loads of a text that starts at a "{": an object is "{" members "}"
IsJsonObject(text) ==
  /\ Len(text) >= 2
  /\ text[1].t = "lb" /\ text[Len(text)].t = "rb"
  /\ \A i \in 2..(Len(text) - 1) : text[i].t = "kv"

\* a dict is the sequence of its items in insertion order, one item per key
HasKey(d, k) == \E i \in 1..Len(d) : d[i].k = k
Item(d, k)   == d[CHOOSE i \in 1..Len(d) : d[i].k = k].v

\* d[k] = v: a key the dict holds keeps its place and takes the new value
DictSetItem(d, k, v) ==
  IF HasKey(d, k)
  THEN [i \in 1..Len(d) |-> IF d[i].k = k THEN [k |-> k, v |-> v] ELSE d[i]]
  ELSE Append(d, [k |-> k, v |-> v])

RECURSIVE JsonMembers(_, _)
JsonMembers(d, members) ==
  IF members = <<>> THEN d
  ELSE JsonMembers(DictSetItem(d, Head(members).k, Head(members).v), Tail(members))

\* the parsed dict: the members are stored one after the other, so of two
\* members with the same key the later value is the one kept
JsonObject(text) == JsonMembers(<<>>, SubSeq(text, 2, Len(text) - 1))

\* json.loads reads the text from the left: it raises something other than
\* JSONDecodeError when it comes to a member it cannot build before it comes
\* to anything that is not JSON
JsonLoadsRaises(text) ==
  \E i \in 2..(Len(text) - 1) :
    /\ text[i].t = "kv_raises"
    /\ \A j \in 2..(i - 1) : text[j].t = "kv"

\* lines 154-165: only json.JSONDecodeError is caught.  Yields [raised, out].
_extract_json_from_response(response_text) ==
  IF HasTok(response_text, "lb") /\ HasTok(response_text, "rb")
  THEN LET json_str == SubSeq(response_text, Find(response_text, "lb"),
                              RFind(response_text, "rb"))
       IN IF JsonLoadsRaises(json_str) THEN [raised |-> TRUE, out |-> <<>>]
          ELSE [raised |-> FALSE,
                out |-> IF IsJsonObject(json_str) THEN JsonObject(json_str) ELSE <<>>]
  ELSE [raised |-> FALSE, out |-> <<>>]

(***************************************************************************)
(* commander.py: what each function returns on each path.  Confidence is   *)
(* in hundredths (0.85 is 85).                                             *)
(***************************************************************************)
max_wait == 120
interval == 2

UnknownHighConfidence == <<"unknown", 85>>
Unknown == <<"unknown", 50>>

\* f"The error pattern '{pattern}' indicates a potential issue that requires investigation."
FallbackHypothesis(p) ==
  <<"The error pattern '", p, "' indicates a potential issue that requires investigation.">>

Fallback(cause, action) ==
  << [cause |-> cause, probability |-> Prob(100, 100), severity |-> "medium",
      action |-> action] >>

Insufficient == Fallback("Insufficient information to determine root cause",
                         "Enable detailed logging and X-Ray tracing for deeper analysis")
ErrorDuring  == Fallback("Error during analysis",
                         "Review logs manually and check AWS service health")
AnalysisTimeout == Fallback("Analysis timeout",
                            "Review logs manually and check AWS service health")

RECURSIVE SumNum(_)
SumNum(ps) ==
  IF ps = <<>> THEN 0
  ELSE Get(Head(ps), "probability", Prob(0, 100)).num + SumNum(Tail(ps))

NormalizeNoop(possibilities) == possibilities

\* lines 346-350: divide every probability by the raw sum when it is positive
Normalize(possibilities) ==
  LET total_prob == SumNum(possibilities) IN
    IF total_prob > 0
    THEN [i \in 1..Len(possibilities) |->
            Update(possibilities[i],
                   [probability |->
                      Prob(Get(possibilities[i], "probability", Prob(0, 100)).num,
                           total_prob)])]
    ELSE possibilities

NoHandleResult(f, p) ==
  CASE f = "classify"      -> Unknown
    [] f = "hypothesis"    -> FallbackHypothesis(p)
    [] f = "possibilities" -> Insufficient

\* except Exception
ExceptResult(f, p) ==
  CASE f = "classify"      -> Unknown
    [] f = "hypothesis"    -> FallbackHypothesis(p)
    [] f = "possibilities" -> ErrorDuring

\* the result for status == 'completed', from the answer text; an exception
\* that leaves _extract_json_from_response is caught by `except Exception`
CompletedResult(f, p, answer) ==
  LET extracted == _extract_json_from_response(answer)
      result    == extracted.out
  IN
  IF extracted.raised THEN ExceptResult(f, p) ELSE
  CASE f = "classify" ->
         IF result # <<>> THEN <<result[1].k, 85>> ELSE Unknown
    [] f = "hypothesis" ->
         IF result # <<>> /\ HasKey(result, "hypothesis")
         THEN Item(result, "hypothesis") ELSE FallbackHypothesis(p)
    [] f = "possibilities" ->
         IF result # <<>> /\ HasKey(result, "possibilities")
         THEN Normalize(Item(result, "possibilities")) ELSE Insufficient

FailedResult(f, p) ==
  CASE f = "classify"      -> Unknown
    [] f = "hypothesis"    -> FallbackHypothesis(p)
    [] f = "possibilities" -> ErrorDuring

TimeoutResultEmpty(f, p) ==
  CASE f = "classify"      -> Unknown
    [] f = "hypothesis"    -> <<>>
    [] f = "possibilities" -> <<>>

TimeoutResult(f, p) ==
  CASE f = "classify"      -> Unknown
    [] f = "hypothesis"    -> FallbackHypothesis(p)
    [] f = "possibilities" -> AnalysisTimeout

(***************************************************************************)
(* commander.py: the submit / poll loop shared by classify_pattern_with_llm,*)
(* generate_hypothesis_with_llm and generate_possibilities_with_llm.       *)
(***************************************************************************)
MaxLatency == 2

Functions == {"classify", "hypothesis", "possibilities"}
Patterns  == {"unknown", "timeout"}
\* the calls made: classify takes no pattern
Calls == {<<"classify", "">>} \cup ({"hypothesis", "possibilities"} \X Patterns)
Statuses  == {"completed", "failed", "queued", "running", ""}

\* a get_research response: result_response
AnswerPairs == {<<"", "">>, <<"prose", "">>, <<"pattern_json", "">>, <<"hyp_json", "">>,
                <<"poss_json", "">>, <<"empty_obj", "">>, <<"", "hyp_json">>,
                <<"deep_obj", "">>}
PollResponses == {[status |-> st, answer |-> a[1], content |-> a[2]] :
                    st \in Statuses, a \in AnswerPairs}

NoResp == [status |-> "", answer |-> "", content |-> ""]

AnswerOfContentOnly(resp) == AnswerText(resp.content)

\* result_response.get('answer', '') or result_response.get('content', '')
AnswerOf(resp) ==
  IF AnswerText(resp.answer) # <<>> THEN AnswerText(resp.answer)
  ELSE AnswerText(resp.content)

\* if not request_id
NoRequestIdUnchecked(r) == FALSE
NoRequestId(r) == r \in {"no_id", "empty_id"}

\* while time.time() - start_time < max_wait
LoopConditionInclusive(t, t0) == t - t0 <= max_wait
LoopConditionInverted(t, t0) == t - t0 > max_wait
LoopCondition(t, t0) == t - t0 < max_wait

TaskIdle ==
  /\ task = "none" /\ tArgs = <<>> /\ tLogs = <<>> /\ tResults = <<>> /\ tStatus = "idle"
  /\ tBackendRaised = FALSE /\ tRet = <<>>

NodeIdle ==
  /\ nClient = "given" /\ nApiKey = "set" /\ nPc = "idle" /\ nFn = "classify"
  /\ nState = EmptyDict /\ nSubmits = 0 /\ nInFlight = {} /\ nTrace = <<>>
  /\ nError = "" /\ nRet = EmptyDict

PollIdle ==
  /\ fn = "classify" /\ pattern = "unknown" /\ pc = "idle"
  /\ now = 0 /\ start_time = 0 /\ submitResp = "none"
  /\ polls = 0 /\ sleeps = 0 /\ observed = "none" /\ lastResp = NoResp
  /\ lastPollDur = 0 /\ outcome = "none" /\ ret = <<>>
  /\ deadlineExpired = FALSE

Return(o, r) ==
  /\ pc' = "done"
  /\ outcome' = o
  /\ ret' = r

\* tavily_client.research(input=prompt, model="mini") and the request_id test
Submit ==
  /\ pc = "call"
  /\ \E r \in {"raise", "no_id", "empty_id", "id"}, d \in {0, MaxLatency} :
       /\ submitResp' = r
       /\ now' = now + d
       /\ start_time' = IF r = "id" THEN now + d ELSE start_time
       /\ IF r = "raise" THEN Return("Error", ExceptResult(fn, pattern))
          ELSE IF NoRequestId(r) THEN Return("NoHandle", NoHandleResult(fn, pattern))
          ELSE /\ pc' = "test"
               /\ UNCHANGED <<outcome, ret>>
  /\ UNCHANGED <<fn, pattern, polls, sleeps, observed, lastResp, lastPollDur,
                 deadlineExpired>>
  /\ UNCHANGED <<graphVars, taskVars, nodeVars>>

\* the while condition
LoopTest ==
  /\ pc = "test"
  /\ IF LoopCondition(now, start_time)
     THEN /\ pc' = "poll"
          /\ UNCHANGED <<outcome, ret>>
     ELSE Return("TimedOut", TimeoutResult(fn, pattern))
  /\ UNCHANGED <<fn, pattern, now, start_time, submitResp, polls, sleeps, observed,
                 lastResp, lastPollDur, deadlineExpired>>
  /\ UNCHANGED <<graphVars, taskVars, nodeVars>>

\* tavily_client.get_research(request_id) raises: except Exception
PollRaises ==
  /\ pc = "poll"
  /\ \E d \in 0..MaxLatency :
       /\ now' = now + d
       /\ lastPollDur' = d
  /\ polls' = polls + 1
  /\ observed' = "raised"
  /\ Return("Error", ExceptResult(fn, pattern))
  /\ UNCHANGED <<fn, pattern, start_time, submitResp, sleeps, lastResp, deadlineExpired>>
  /\ UNCHANGED <<graphVars, taskVars, nodeVars>>

\* tavily_client.get_research(request_id) answers: the status tests
Poll ==
  /\ pc = "poll"
  /\ \E resp \in PollResponses, d \in 0..MaxLatency :
       /\ now' = now + d
       /\ lastPollDur' = d
       /\ IF resp.status = "completed"
          THEN /\ observed' = "completed"
               /\ lastResp' = resp
               /\ Return("Completed", CompletedResult(fn, pattern, AnswerOf(resp)))
          ELSE IF resp.status = "failed"
          THEN /\ observed' = "failed"
               /\ lastResp' = resp
               /\ Return("Failed", FailedResult(fn, pattern))
          ELSE /\ observed' = "pending"
               /\ pc' = "sleep"
               /\ UNCHANGED <<lastResp, outcome, ret>>
  /\ polls' = polls + 1
  /\ UNCHANGED <<fn, pattern, start_time, submitResp, sleeps, deadlineExpired>>
  /\ UNCHANGED <<graphVars, taskVars, nodeVars>>

\* time.sleep(2)
Sleep ==
  /\ pc = "sleep"
  /\ now' = now + interval
  /\ sleeps' = sleeps + 1
  /\ pc' = "test"
  /\ UNCHANGED <<fn, pattern, start_time, submitResp, polls, observed, lastResp,
                 lastPollDur, outcome, ret, deadlineExpired>>
  /\ UNCHANGED <<graphVars, taskVars, nodeVars>>

\* the host's run-level deadline passes while the function is polling; the
\* function takes no cancellation signal and reads no deadline
DeadlineExpires ==
  /\ pc \in {"test", "poll", "sleep"}
  /\ ~deadlineExpired
  /\ deadlineExpired' = TRUE
  /\ UNCHANGED <<fn, pattern, pc, now, start_time, submitResp, polls, sleeps, observed,
                 lastResp, lastPollDur, outcome, ret>>
  /\ UNCHANGED <<graphVars, taskVars, nodeVars>>

InitPoll ==
  /\ GraphIdle /\ TaskIdle /\ NodeIdle
  /\ \E c \in Calls : fn = c[1] /\ pattern = c[2]
  /\ pc = "call"
  /\ now = 0 /\ start_time = 0 /\ submitResp = "none"
  /\ polls = 0 /\ sleeps = 0 /\ observed = "none" /\ lastResp = NoResp
  /\ lastPollDur = 0 /\ outcome = "none" /\ ret = <<>>
  /\ deadlineExpired = FALSE

NextPoll == Submit \/ LoopTest \/ Poll \/ PollRaises \/ Sleep \/ DeadlineExpires

SpecPoll == InitPoll /\ [][NextPoll]_vars

(***************************************************************************)
(* metrics_agent.py: classify_cloudwatch_logs_groq, and the three          *)
(* LLM-backed tasks called on their own.                                   *)
(***************************************************************************)
MaxLogs == 2

Messages == {"Task timed out", "ok"}
LogEntries == {[timestamp |-> ts, message |-> m] : ts \in {1, 2}, m \in Messages}

\* what client.chat.completions.create does for one log
GroqBackends == {"raise", "garbage", "json_error", "json_info"}

DefaultClassification ==
  [severity |-> "UNKNOWN", category |-> "UNKNOWN", action_required |-> "INVESTIGATE",
   confidence |-> 0, reason |-> "Failed to parse Groq response"]

ClassificationDefaultIgnore(b) ==
  CASE b = "json_error" -> [severity |-> "ERROR", category |-> "APPLICATION",
                            action_required |-> "INVESTIGATE", confidence |-> 90,
                            reason |-> "r"]
    [] b = "json_info"  -> [severity |-> "INFO", category |-> "APPLICATION",
                            action_required |-> "IGNORE", confidence |-> 80,
                            reason |-> "r"]
    [] OTHER            -> [severity |-> "UNKNOWN", category |-> "UNKNOWN",
                            action_required |-> "IGNORE", confidence |-> 0,
                            reason |-> "Failed to parse Groq response"]

\* json.loads(raw), or the default when it does not parse
Classification(b) ==
  CASE b = "json_error" -> [severity |-> "ERROR", category |-> "APPLICATION",
                            action_required |-> "INVESTIGATE", confidence |-> 90,
                            reason |-> "r"]
    [] b = "json_info"  -> [severity |-> "INFO", category |-> "APPLICATION",
                            action_required |-> "IGNORE", confidence |-> 80,
                            reason |-> "r"]
    [] OTHER            -> DefaultClassification

Tasks == {"LogAgent.analyze", "DeployAgent.analyze", "classify_cloudwatch_logs_groq",
          "_extract_json_from_response", "generate_possibilities_with_llm",
          "InvestigationAgent.synthesize", "reconcile_findings", "handler"}

SeqsUpTo(S, n) == UNION {[1..k -> S] : k \in 0..n}

\* response_text for _extract_json_from_response
MaxTextLen == 5
TextTokens == {LB, RB, Prose, KV("a", "x"), KV("a", "y"),
               KVRaises("a", "RecursionError"), KVRaises("a", "ValueError")}

\* result['possibilities'] of a completed answer: raw probabilities in
\* hundredths, or no 'probability' key
MaxPoss == 2
RawProbs == {0, 20, 60}
PossItems ==
  {[cause |-> c, probability |-> Prob(v, 100), severity |-> "high", action |-> "act"] :
     c \in {"c1", "c2"}, v \in RawProbs}
  \cup {[cause |-> c, severity |-> "low", action |-> "act"] : c \in {"c1", "c2"}}

\* the three per-task results handed to synthesize / held in the state
LogResults ==
  {LogObjOOM, LogObjMem, LogObjClean,
   [issues |-> <<"Connection Error">>, summary |-> "conn"],
   [issues |-> <<"CPU high">>, summary |-> "cpu"],
   [error |-> "backend", issues |-> <<>>]}
MetricsResults ==
  {[status |-> "critical", alerts |-> <<"CPU high">>],
   [status |-> "critical", alerts |-> <<>>],
   [status |-> "degraded", alerts |-> <<"MemoryUsed">>],
   [status |-> "healthy", alerts |-> <<>>],
   [status |-> "healthy", alerts |-> <<"MemoryUsed">>],
   [error |-> "backend"]}
DeployResults ==
  {DepObjMem, DepObjNone,
   [changes |-> {}, risk_level |-> "Medium"],
   [changes |-> {"memory_size"}, risk_level |-> "Low"],
   [error |-> "FileNotFoundError"],
   [error |-> "backend", changes |-> {}]}

\* states in which some analysis has not written its result
PartialStates ==
  {EmptyDict,
   [log_analysis |-> LogObjOOM],
   [metrics_analysis |-> [status |-> "degraded", alerts |-> <<"MemoryUsed">>],
    deployment_analysis |-> DepObjMem],
   [log_analysis |-> LogObjMem, deployment_analysis |-> DepObjMem]}

(***************************************************************************)
(* app.py: the ingestion handler.  event['awslogs']['data'] is the JSON    *)
(* text of the payload, gzip-compressed, base64-encoded; each layer is a   *)
(* wrapper around what it encodes.                                         *)
(***************************************************************************)
MaxEvents == 2

\* the message of a log event, by what it is:
\*   "json_object"   the str '{"a": 1}'
\*   "json_number"   the str '42'
\*   "plain_text"    the str 'plain'
\*   "deep_nesting"  the str '[' * 100000
\*   "huge_integer"  the str '1' * 5000
\*   "int"           the number 42, not a str
HandlerMessages == {"json_object", "json_number", "plain_text", "deep_nesting",
                    "huge_integer", "int"}

HandlerLogEvents ==
  {[timestamp |-> 1, message |-> m] : m \in HandlerMessages} \cup {[timestamp |-> 1]}

JsonDumps(value)  == [enc |-> "json", type |-> "object", of |-> value]
JsonDumpsList(l)  == [enc |-> "json", type |-> "array", of |-> l]
GzipCompress(b)   == [enc |-> "gzip", type |-> "bytes", of |-> b]
B64Encode(b)      == [enc |-> "base64", type |-> "str", of |-> b]
\* a value that encodes nothing, by what it is:
\*   Raw("garbage", "bytes")     neither a gzip stream nor JSON text (b'\x00\x01junk')
\*   Raw("empty", "bytes")       b''
\*   Raw("not_base64", "str")    no base64 text ('!!!not base64!!!', 'abc')
\*   Raw("non_alphabet", "str")  no character of the base64 alphabet ('!!!!', '')
\*   Raw("none", "NoneType")     None
Raw(kind, type)   == [enc |-> kind, type |-> type, of |-> <<>>]

\* base64.b64decode drops the characters outside the alphabet and decodes
\* what is left: nothing left decodes to b'', a length that is no multiple
\* of four raises binascii.Error, and None raises TypeError
B64Decode(data) ==
  CASE data.enc = "base64"       -> Returns(data.of)
    [] data.enc = "non_alphabet" -> Returns(Raw("empty", "bytes"))
    [] OTHER                     -> Raise

\* gzip.decompress returns b'' for b'' and raises BadGzipFile on any other
\* bytes that are not a gzip stream
GzipDecompress(b) ==
  CASE b.enc = "gzip"  -> Returns(b.of)
    [] b.enc = "empty" -> Returns(Raw("empty", "bytes"))
    [] OTHER           -> Raise

\* json.loads of the decompressed bytes
PayloadLoads(b) == IF b.enc = "json" THEN Returns(b) ELSE Raise

EnvelopeFaults == {"none", "no_awslogs", "not_base64", "non_alphabet", "data_none",
                   "bad_gzip", "bad_json", "not_object"}

Payload(events) ==
  [logGroup |-> "/aws/lambda/test_function", logStream |-> "test_stream",
   logEvents |-> events]

\* the event handed to the handler
HandlerEvent(events, fault) ==
  CASE fault = "none" ->
         [awslogs |-> [data |-> B64Encode(GzipCompress(JsonDumps(Payload(events))))]]
    [] fault = "no_awslogs" -> EmptyDict
    [] fault = "not_base64"   -> [awslogs |-> [data |-> Raw("not_base64", "str")]]
    [] fault = "non_alphabet" -> [awslogs |-> [data |-> Raw("non_alphabet", "str")]]
    [] fault = "data_none"    -> [awslogs |-> [data |-> Raw("none", "NoneType")]]
    [] fault = "bad_gzip"   -> [awslogs |-> [data |-> B64Encode(Raw("garbage", "bytes"))]]
    [] fault = "bad_json"   -> [awslogs |-> [data |-> B64Encode(GzipCompress(Raw("garbage", "bytes")))]]
    [] fault = "not_object" ->
         [awslogs |-> [data |-> B64Encode(GzipCompress(JsonDumpsList(events)))]]

HandlerArgs ==
  {[event |-> HandlerEvent(events, fault), events |-> events, fault |-> fault] :
     events \in SeqsUpTo(HandlerLogEvents, MaxEvents), fault \in EnvelopeFaults}

\* lines 16-24: the log events of the payload, or the exception
DecodeEvents(event) ==
  IF "awslogs" \notin DOMAIN event THEN Raise
  ELSE LET compressed_data == B64Decode(event.awslogs.data)
           decompressed    == GzipDecompress(compressed_data.out)
       IN IF compressed_data.raised THEN Raise
          ELSE IF decompressed.raised THEN Raise
          ELSE LET loaded == PayloadLoads(decompressed.out) IN
               IF loaded.raised THEN Raise
               \* payload.get on a list is an AttributeError
               ELSE IF loaded.out.type # "object" THEN Raise
               ELSE Returns(Get(loaded.out.of, "logEvents", <<>>))

NoneMessage == "None"

\* json.loads(message): what it may do, "ok" or the exception it raises.  A
\* value that is not a str (None, a number) is a TypeError; an integer text
\* above the interpreter's digit limit is a ValueError on the interpreters
\* that have the limit and parses on the others.
MessageLoads(message) ==
  CASE message = "json_object"  -> {"ok"}
    [] message = "json_number"  -> {"ok"}
    [] message = "plain_text"   -> {"JSONDecodeError"}
    [] message = "deep_nesting" -> {"RecursionError"}
    [] message = "huge_integer" -> {"ok", "ValueError"}
    [] OTHER                    -> {"TypeError"}

TaskArgs(t) ==
  CASE t = "_extract_json_from_response"     -> SeqsUpTo(TextTokens, MaxTextLen)
    [] t = "generate_possibilities_with_llm" -> SeqsUpTo(PossItems, MaxPoss)
    [] t = "InvestigationAgent.synthesize"   ->
         [log_analysis : LogResults, metrics_analysis : MetricsResults,
          deployment_analysis : DeployResults, b : SynthBackends]
    [] t = "reconcile_findings"              ->
         [log_analysis : LogResults, metrics_analysis : MetricsResults,
          deployment_analysis : DeployResults] \cup PartialStates
    [] t = "DeployAgent.analyze"             -> [b : DeployBackends]
    [] t = "classify_cloudwatch_logs_groq"   -> SeqsUpTo(GroqBackends, MaxLogs)
    [] t = "handler"                         -> HandlerArgs
    [] OTHER                                 -> {<<>>}

InitTasks ==
  /\ GraphIdle /\ PollIdle /\ NodeIdle
  /\ task \in Tasks
  /\ tArgs \in TaskArgs(task)
  /\ tLogs \in (IF task = "classify_cloudwatch_logs_groq"
                THEN SeqsUpTo(LogEntries, MaxLogs) ELSE {<<>>})
  /\ task = "classify_cloudwatch_logs_groq" => Len(tArgs) = Len(tLogs)
  /\ tResults = <<>>
  /\ tStatus = "running"
  /\ tBackendRaised = FALSE
  /\ tRet = <<>>

\* LogAgent.analyze(log_payload)
CallLogAgent ==
  /\ task = "LogAgent.analyze" /\ tStatus = "running"
  /\ \E b \in LogBackends, p \in Payloads \cup UnreadablePayloads :
       LET r == LogAgent_analyze(p, b) IN
         /\ tRet' = r.out
         /\ tStatus' = IF r.raised THEN "raised" ELSE "returned"
         /\ tBackendRaised' = (~r.raised /\ LLMRaises(b))
  /\ UNCHANGED <<task, tArgs, tLogs, tResults>>
  /\ UNCHANGED <<graphVars, pollVars, nodeVars>>

\* DeployAgent.analyze()
CallDeployAgent ==
  /\ task = "DeployAgent.analyze" /\ tStatus = "running"
  /\ tRet' = DeployAgent_analyze(tArgs.b)
  /\ tBackendRaised' = LLMRaises(tArgs.b)
  /\ tStatus' = "returned"
  /\ UNCHANGED <<task, tArgs, tLogs, tResults>>
  /\ UNCHANGED <<graphVars, pollVars, nodeVars>>

\* one iteration of `for log in log_json.get("logs", [])`: the completion call
\* is outside the try block
ClassifyLog ==
  /\ task = "classify_cloudwatch_logs_groq" /\ tStatus = "running"
  /\ Len(tResults) < Len(tLogs)
  /\ LET b == tArgs[Len(tResults) + 1] IN
       IF b = "raise"
       THEN /\ tStatus' = "raised"
            /\ tBackendRaised' = TRUE
            /\ UNCHANGED tResults
       ELSE /\ tResults' = Append(tResults,
                 [timestamp |-> tLogs[Len(tResults) + 1].timestamp,
                  message |-> tLogs[Len(tResults) + 1].message,
                  classification |-> Classification(b)])
            /\ UNCHANGED <<tStatus, tBackendRaised>>
  /\ UNCHANGED <<task, tArgs, tLogs, tRet>>
  /\ UNCHANGED <<graphVars, pollVars, nodeVars>>

\* return results
ClassifyReturn ==
  /\ task = "classify_cloudwatch_logs_groq" /\ tStatus = "running"
  /\ Len(tResults) = Len(tLogs)
  /\ tRet' = tResults
  /\ tStatus' = "returned"
  /\ UNCHANGED <<task, tArgs, tLogs, tResults, tBackendRaised>>
  /\ UNCHANGED <<graphVars, pollVars, nodeVars>>

\* _extract_json_from_response(response_text)
CallExtractJson ==
  /\ task = "_extract_json_from_response" /\ tStatus = "running"
  /\ LET r == _extract_json_from_response(tArgs)
     IN /\ tRet' = r.out
        /\ tStatus' = IF r.raised THEN "raised" ELSE "returned"
  /\ UNCHANGED <<task, tArgs, tLogs, tResults, tBackendRaised>>
  /\ UNCHANGED <<graphVars, pollVars, nodeVars>>

\* generate_possibilities_with_llm on a completed poll whose answer is an
\* object with the list tArgs under 'possibilities' (lines 338-358)
CallPossibilitiesCompleted ==
  /\ task = "generate_possibilities_with_llm" /\ tStatus = "running"
  /\ tRet' = CompletedResult("possibilities", "timeout",
                             <<Prose, LB, KV("possibilities", tArgs), RB>>)
  /\ tStatus' = "returned"
  /\ UNCHANGED <<task, tArgs, tLogs, tResults, tBackendRaised>>
  /\ UNCHANGED <<graphVars, pollVars, nodeVars>>

\* InvestigationAgent.synthesize(log_analysis, metrics_analysis, deployment_analysis)
CallSynthesize ==
  /\ task = "InvestigationAgent.synthesize" /\ tStatus = "running"
  /\ LET r == synthesize(tArgs.log_analysis, tArgs.metrics_analysis,
                         tArgs.deployment_analysis, tArgs.b)
     IN /\ tRet' = r.out
        /\ tStatus' = IF r.raised THEN "raised" ELSE "returned"
  /\ tBackendRaised' = LLMRaises(tArgs.b)
  /\ UNCHANGED <<task, tArgs, tLogs, tResults>>
  /\ UNCHANGED <<graphVars, pollVars, nodeVars>>

\* reconcile_findings(state)
CallReconcile ==
  /\ task = "reconcile_findings" /\ tStatus = "running"
  /\ LET r == reconcile_findings(tArgs)
     IN /\ tRet' = r.out
        /\ tStatus' = IF r.raised THEN "raised" ELSE "returned"
  /\ UNCHANGED <<task, tArgs, tLogs, tResults, tBackendRaised>>
  /\ UNCHANGED <<graphVars, pollVars, nodeVars>>

\* handler(event, context), lines 16-26: decode, decompress, parse
HandlerDecode ==
  /\ task = "handler" /\ tStatus = "running"
  /\ LET r == DecodeEvents(tArgs.event) IN
       IF r.raised
       THEN /\ tStatus' = "raised"
            /\ UNCHANGED tLogs
       ELSE /\ tStatus' = "decoded"
            /\ tLogs' = r.out
  /\ UNCHANGED <<task, tArgs, tResults, tBackendRaised, tRet>>
  /\ UNCHANGED <<graphVars, pollVars, nodeVars>>

\* one iteration of `for log_event in log_events`: the inner except catches
\* json.JSONDecodeError and TypeError, anything else reaches `raise e`
HandlerLogEvent ==
  /\ task = "handler" /\ tStatus = "decoded"
  /\ Len(tResults) < Len(tLogs)
  /\ \E loaded \in MessageLoads(Get(tLogs[Len(tResults) + 1], "message", NoneMessage)) :
     LET message == Get(tLogs[Len(tResults) + 1], "message", NoneMessage)
     IN IF loaded = "ok"
        THEN /\ tResults' = Append(tResults,
                  [line |-> "Processed Structured Log", message |-> message])
             /\ UNCHANGED tStatus
        ELSE IF loaded \in {"JSONDecodeError", "TypeError"}
        THEN /\ tResults' = Append(tResults,
                  [line |-> "Processed Text Log", message |-> message])
             /\ UNCHANGED tStatus
        ELSE /\ tStatus' = "raised"
             /\ UNCHANGED tResults
  /\ UNCHANGED <<task, tArgs, tLogs, tBackendRaised, tRet>>
  /\ UNCHANGED <<graphVars, pollVars, nodeVars>>

\* lines 46-49
HandlerReturn ==
  /\ task = "handler" /\ tStatus = "decoded"
  /\ Len(tResults) = Len(tLogs)
  /\ tRet' = [statusCode |-> 200,
              body |-> JsonDumps([message |-> "Logs processed successfully"])]
  /\ tStatus' = "returned"
  /\ UNCHANGED <<task, tArgs, tLogs, tResults, tBackendRaised>>
  /\ UNCHANGED <<graphVars, pollVars, nodeVars>>

NextTasks ==
  \/ HandlerDecode \/ HandlerLogEvent \/ HandlerReturn
  \/ CallLogAgent \/ CallDeployAgent \/ ClassifyLog \/ ClassifyReturn
  \/ CallExtractJson \/ CallPossibilitiesCompleted \/ CallSynthesize \/ CallReconcile

SpecTasks == InitTasks /\ [][NextTasks]_vars

(***************************************************************************)
(* The compiled graph's executor: supersteps.  The nodes of a superstep    *)
(* run concurrently on the state as it was when the step began; their      *)
(* writes are applied together when all of them have returned, and the     *)
(* nodes their edges lead to form the next superstep.                      *)
(***************************************************************************)
InitGraph ==
  /\ PollIdle /\ TaskIdle /\ NodeIdle
  /\ payload \in Payloads
  /\ backend = [n \in AnalysisNodes |-> "not_called"]
  /\ state = EmptyDict
  /\ active = {} /\ running = {} /\ finished = {}
  /\ writes = <<>>
  /\ runs = [n \in Nodes |-> 0]
  /\ step = 0
  /\ runStatus = "idle"
  /\ order = <<>>
  /\ report = EmptyDict

\* app.invoke({"log_payload": payload}): the input is written, START's edges fire
Invoke ==
  /\ runStatus = "idle"
  /\ runStatus' = "running"
  /\ state' = [log_payload |-> payload]
  /\ active' = Triggered({START})
  /\ step' = 1
  /\ UNCHANGED <<payload, backend, running, finished, writes, runs, order, report>>
  /\ UNCHANGED <<pollVars, taskVars, nodeVars>>

\* what the backend of an analysis node may do when the node calls it
NodeBackends(n) ==
  CASE n = "log_agent"     -> LogBackends
    [] n = "metrics_agent" -> MetricsBackends
    [] n = "deploy_agent"  -> DeployBackends

\* a scheduled node starts executing; an analysis node calls its backend
\* anew on every execution, and the backend may answer differently each time
BeginNode(n) ==
  /\ runStatus = "running"
  /\ n \in active /\ n \notin running /\ n \notin finished
  /\ running' = running \cup {n}
  /\ runs' = [runs EXCEPT ![n] = @ + 1]
  /\ IF n \in AnalysisNodes
     THEN \E b \in NodeBackends(n) : backend' = [backend EXCEPT ![n] = b]
     ELSE UNCHANGED backend
  /\ UNCHANGED <<payload, state, active, finished, writes, step,
                 runStatus, order, report>>
  /\ UNCHANGED <<pollVars, taskVars, nodeVars>>

\* a node returns (or raises, which aborts the run)
FinishNode(n) ==
  /\ runStatus = "running"
  /\ n \in running
  /\ LET r == NodeFn(n, state) IN
       IF r.raised
       THEN /\ runStatus' = "failed"
            /\ UNCHANGED <<writes, finished, order>>
            /\ running' = running \ {n}
       ELSE /\ writes' = Append(writes, r.out)
            /\ finished' = finished \cup {n}
            /\ running' = running \ {n}
            /\ order' = Append(order, n)
            /\ UNCHANGED runStatus
  /\ UNCHANGED <<payload, backend, state, active, runs, step, report>>
  /\ UNCHANGED <<pollVars, taskVars, nodeVars>>

\* two nodes wrote the same plain (LastValue) channel in one superstep
WriteConflict(ws) ==
  \E i, j \in 1..Len(ws) : i # j /\ (DOMAIN ws[i]) \cap (DOMAIN ws[j]) # {}

ApplyWritesLastWins(st, ws) ==
  IF ws = <<>> THEN st ELSE ws[Len(ws)]

RECURSIVE ApplyWrites(_, _)
ApplyWrites(st, ws) ==
  IF ws = <<>> THEN st ELSE ApplyWrites(Update(st, Head(ws)), Tail(ws))

\* the end of a superstep
Barrier ==
  /\ runStatus = "running"
  /\ active # {} /\ finished = active
  /\ IF WriteConflict(writes)
     THEN /\ runStatus' = "failed"
          /\ UNCHANGED <<state, active, step>>
     ELSE /\ state' = ApplyWrites(state, writes)
          /\ active' = Triggered(active)
          /\ step' = step + 1
          /\ runStatus' = IF Triggered(active) = {} THEN "done" ELSE "running"
  /\ finished' = {}
  /\ writes' = <<>>
  /\ UNCHANGED <<payload, backend, running, runs, order, report>>
  /\ UNCHANGED <<pollVars, taskVars, nodeVars>>

\* the run's three analyses handed to InvestigationAgent.synthesize
Synthesize(b) ==
  /\ runStatus = "done"
  /\ report = EmptyDict
  /\ LET d == state["final_diagnosis"].details IN
       report' = synthesize(d.log_analysis, d.metrics_analysis, d.deployment_analysis, b)
  /\ UNCHANGED <<payload, backend, state, active, running, finished, writes, runs,
                 step, runStatus, order>>
  /\ UNCHANGED <<pollVars, taskVars, nodeVars>>

NextGraph ==
  \/ Invoke
  \/ \E b \in SynthBackends : Synthesize(b)
  \/ \E n \in Nodes : BeginNode(n)
  \/ \E n \in Nodes : FinishNode(n)
  \/ Barrier

SpecGraph == InitGraph /\ [][NextGraph]_vars

(***************************************************************************)
(* commander.py: analyze_cloudwatch_log / analyze_log_node.  Each of the   *)
(* three steps is one pipeline function; its submit and the return of its  *)
(* poll loop are separate steps here, the loop itself is SpecPoll's.       *)
(***************************************************************************)
ApiKeys == {"set", "unset", "empty"}

GetTavilyClientNoCheck(api_key) == Returns("client")

\* if not api_key: raise ValueError(...)
_get_tavily_client(api_key) ==
  IF api_key \in {"unset", "empty"} THEN Raise ELSE Returns("client")

severity_map ==
  [p \in {"timeout", "memory", "permission", "network", "resource", "runtime",
          "throttling", "cold_start", "handler", "unknown"} |->
     CASE p \in {"memory", "permission", "network", "resource", "runtime", "handler"}
            -> "critical"
       [] p \in {"timeout", "throttling"} -> "high"
       [] p \in {"cold_start", "unknown"} -> "medium"]

SeverityOfDefaultUnknown(p) ==
  IF p \in DOMAIN severity_map THEN severity_map[p] ELSE "unknown"

\* severity_map.get(pattern, "medium")
SeverityOf(p) ==
  IF p \in DOMAIN severity_map THEN severity_map[p] ELSE "medium"

\* the first key of a classification answer
PatternKeys == DOMAIN severity_map \cup {"Timeout", "latency"}

\* str.upper()
Upper(str) ==
  CASE str = "timeout" -> "TIMEOUT"       [] str = "memory" -> "MEMORY"
    [] str = "permission" -> "PERMISSION" [] str = "network" -> "NETWORK"
    [] str = "resource" -> "RESOURCE"     [] str = "runtime" -> "RUNTIME"
    [] str = "throttling" -> "THROTTLING" [] str = "cold_start" -> "COLD_START"
    [] str = "handler" -> "HANDLER"       [] str = "unknown" -> "UNKNOWN"
    [] str = "Timeout" -> "TIMEOUT"       [] str = "latency" -> "LATENCY"
    [] str = "critical" -> "CRITICAL"     [] str = "high" -> "HIGH"
    [] str = "medium" -> "MEDIUM"         [] str = "low" -> "LOW"
    [] OTHER -> str

\* format(x, ".0%"): the float x is multiplied by 100 and the product is
\* rounded to an integer, ties to even.  x is the float that lines 346-350
\* got by dividing a float by a float sum, so where the exact ratio is a half
\* (12.5%) the product is the half itself or lies a rounding error above or
\* below it; which of the three depends on the other entries of the list and
\* on the interpreter's float summation (0.05 gives 13% in the list 0.05,
\* 0.35 and 12% in the list 0.05, 0.15, 0.2).  err is the sign of that error.
Percent(p, err) ==
  LET q == (100 * p.num) \div p.den
      r == (100 * p.num) % p.den
  IN IF 2 * r > p.den THEN q + 1
     ELSE IF 2 * r < p.den THEN q
     ELSE IF err > 0 THEN q + 1
     ELSE IF err < 0 THEN q
     ELSE IF q % 2 = 1 THEN q + 1 ELSE q

RawLog == "Task timed out after 30.00 seconds"

\* initial_state of analyze_cloudwatch_log (without the client)
InitialState ==
  [raw_log |-> RawLog, error_classification |-> EmptyDict, pattern |-> "",
   hypothesis |-> "", possibilities |-> <<>>, log_output |-> "",
   metrics_output |-> EmptyDict]

PossKeys == {"cause", "probability", "severity", "action"}

\* possibility lists a completed answer can carry
NodePossLists ==
  {RawPossibilities,
   <<>>,
   << [cause |-> "c1"] >>,
   << [cause |-> "c1", probability |-> Prob(50, 100), action |-> "a1"] >>,
   << [cause |-> "c1", probability |-> Prob(0, 100), severity |-> "low", action |-> "a1"] >>,
   << [cause |-> "c1", probability |-> Prob(30, 100), severity |-> "high", action |-> "a1"],
      [cause |-> "c2", probability |-> Prob(30, 100), severity |-> "high", action |-> "a2"] >>,
   << [cause |-> "c1", probability |-> Prob(5, 100), severity |-> "high", action |-> "a1"],
      [cause |-> "c2", probability |-> Prob(35, 100), severity |-> "low", action |-> "a2"] >>}

\* the answer text of a completed job
NodeAnswers(f) ==
  CASE f = "classify" ->
         {<<Prose>>} \cup {<<Prose, LB, KV(k, "meaning"), RB>> : k \in PatternKeys}
    [] f = "hypothesis" ->
         {<<Prose>>, <<LB, KV("hypothesis", "H1"), RB>>,
          <<Prose, LB, KVRaises("hypothesis", "RecursionError"), RB>>}
    [] f = "possibilities" ->
         {<<Prose>>} \cup {<<Prose, LB, KV("possibilities", ps), RB>> : ps \in NodePossLists}

SubmitOutcomes == {"raise", "no_id", "empty_id", "id"}
PollOutcomes   == {"completed", "failed", "timeout", "error"}

\* {'critical': 4, 'high': 3, 'medium': 2, 'low': 1}.get(severity, 0)
SevScore(sev) ==
  CASE sev = "critical" -> 4 [] sev = "high" -> 3 [] sev = "medium" -> 2
    [] sev = "low" -> 1 [] OTHER -> 0

ProbLess(a, b) == a.num * b.den < b.num * a.den

\* max(possibilities, key=lambda x: x['probability']): the first maximal entry
MaxByProbability(ps) ==
  ps[CHOOSE i \in 1..Len(ps) :
       /\ \A j \in 1..Len(ps) : ~ProbLess(ps[i].probability, ps[j].probability)
       /\ \A j \in 1..(i - 1) : ProbLess(ps[j].probability, ps[i].probability)]

\* the key (severity score, probability) of the sort
KeyLess(a, b) ==
  \/ SevScore(a.severity) < SevScore(b.severity)
  \/ /\ SevScore(a.severity) = SevScore(b.severity)
     /\ ProbLess(a.probability, b.probability)

Remove(seq, i) == SubSeq(seq, 1, i - 1) \o SubSeq(seq, i + 1, Len(seq))

\* sorted(possibilities, key=..., reverse=True): equal keys keep their order
RECURSIVE SortedReverse(_)
SortedReverse(ps) ==
  IF ps = <<>> THEN <<>>
  ELSE LET i == CHOOSE i \in 1..Len(ps) :
                  /\ \A j \in 1..Len(ps) : ~KeyLess(ps[i], ps[j])
                  /\ \A j \in 1..(i - 1) : KeyLess(ps[j], ps[i])
       IN <<ps[i]>> \o SortedReverse(Remove(ps, i))

RECURSIVE SumScores(_)
SumScores(ps) ==
  IF ps = <<>> THEN 0 ELSE SevScore(Head(ps).severity) + SumScores(Tail(ps))

\* LambdaLogAnalyzer.generate_log_output: a KeyError when an entry lacks a field;
\* err[i] is the sign of the rounding error of the i-th probability
generate_log_output(st, err) ==
  IF \E i \in 1..Len(st.possibilities) : ~(PossKeys \subseteq DOMAIN st.possibilities[i])
  THEN Raise
  ELSE Returns(
         [pattern    |-> Upper(st.pattern),
          confidence |-> Percent(Prob(st.error_classification.confidence, 100), 0),
          hypothesis |-> st.hypothesis,
          causes     |-> [i \in 1..Len(st.possibilities) |->
                            [cause       |-> st.possibilities[i].cause,
                             probability |-> Percent(st.possibilities[i].probability,
                                                     err[i]),
                             severity    |-> Upper(st.possibilities[i].severity),
                             action      |-> st.possibilities[i].action]],
          excerpt    |-> st.raw_log])

\* LambdaLogAnalyzer.generate_metrics_output: max() of an empty list is a
\* ValueError, a missing field a KeyError
generate_metrics_output(st) ==
  LET ps   == st.possibilities
      top3 == SubSeq(SortedReverse(ps), 1, IF Len(ps) < 3 THEN Len(ps) ELSE 3)
  IN
  IF ps = <<>> THEN Raise
  ELSE IF \E i \in 1..Len(ps) : ~({"probability", "severity"} \subseteq DOMAIN ps[i])
  THEN Raise
  ELSE IF \E i \in 1..Len(top3) : "action" \notin DOMAIN top3[i]
  THEN Raise
  ELSE Returns(
         [error_classification |->
            [pattern_type     |-> st.pattern,
             confidence_score |-> st.error_classification.confidence,
             severity_level   |-> Get(st.error_classification, "severity", "unknown")],
          hypothesis |-> [description |-> st.hypothesis, pattern_category |-> st.pattern],
          root_cause_analysis |->
            [total_possibilities       |-> Len(ps),
             possibilities             |-> ps,
             highest_probability_cause |-> MaxByProbability(ps)],
          metrics |->
            [error_count        |-> 1,
             pattern_occurrence |-> st.pattern,
             average_severity   |-> Prob(SumScores(ps), Len(ps)),
             actionable_items   |-> Len(ps)],
          recommendations |->
            [immediate_actions   |-> [i \in 1..Len(top3) |-> top3[i].action],
             monitoring_required |-> TRUE,
             escalation_needed   |-> \E i \in 1..Len(ps) : ps[i].severity = "critical"],
          log_reference |-> [log_snippet |-> st.raw_log]])

NextFnSkipsHypothesis(f) ==
  CASE f = "classify" -> "possibilities" [] OTHER -> "outputs"

\* the step that follows f in analyze_log_node
NextFn(f) ==
  CASE f = "classify"      -> "hypothesis"
    [] f = "hypothesis"    -> "possibilities"
    [] f = "possibilities" -> "outputs"

\* the state after the step f returned res
StateAfter(st, f, res) ==
  CASE f = "classify" ->
         Update(st, [error_classification |->
                       [pattern |-> res[1], confidence |-> res[2],
                        severity |-> SeverityOf(res[1])],
                     pattern |-> res[1]])
    [] f = "hypothesis"    -> Update(st, [hypothesis |-> res])
    [] f = "possibilities" -> Update(st, [possibilities |-> res])

Event(e, f, p) == [e |-> e, f |-> f, p |-> p]

InitNode ==
  /\ GraphIdle /\ PollIdle /\ TaskIdle
  /\ nClient \in {"given", "none"}
  /\ nApiKey \in ApiKeys
  /\ nPc = "submit" /\ nFn = "classify"
  /\ nState = InitialState
  /\ nSubmits = 0 /\ nInFlight = {} /\ nTrace = <<>>
  /\ nError = "" /\ nRet = EmptyDict

\* the pipeline function f has returned res
StepReturns(f, res, trace) ==
  /\ nState' = StateAfter(nState, f, res)
  /\ nTrace' = Append(trace, Event("return", f, nState.pattern))
  /\ nPc' = IF NextFn(f) = "outputs" THEN "outputs" ELSE "submit"
  /\ nFn' = IF NextFn(f) = "outputs" THEN f ELSE NextFn(f)

\* a pipeline function is entered: the client is resolved, then research()
StepSubmit ==
  /\ nPc = "submit"
  /\ IF nClient = "none" /\ _get_tavily_client(nApiKey).raised
     THEN /\ nPc' = "raised"
          /\ nError' = "ValueError: TAVILY_API_KEY not found"
          /\ UNCHANGED <<nFn, nState, nSubmits, nInFlight, nTrace>>
     ELSE /\ nSubmits' = nSubmits + 1
          /\ UNCHANGED nError
          /\ \E r \in SubmitOutcomes :
               LET trace == Append(nTrace, Event("submit", nFn, nState.pattern)) IN
               IF r = "raise"
               THEN /\ StepReturns(nFn, ExceptResult(nFn, nState.pattern), trace)
                    /\ UNCHANGED nInFlight
               ELSE IF NoRequestId(r)
               THEN /\ StepReturns(nFn, NoHandleResult(nFn, nState.pattern), trace)
                    /\ UNCHANGED nInFlight
               ELSE /\ nInFlight' = nInFlight \cup {nFn}
                    /\ nTrace' = trace
                    /\ nPc' = "poll"
                    /\ UNCHANGED <<nFn, nState>>
  /\ UNCHANGED <<nClient, nApiKey, nRet>>
  /\ UNCHANGED <<graphVars, pollVars, taskVars>>

\* the poll loop of the submitted job ends
StepPoll ==
  /\ nPc = "poll"
  /\ \E o \in PollOutcomes, a \in NodeAnswers(nFn) :
       StepReturns(nFn,
                   CASE o = "completed" -> CompletedResult(nFn, nState.pattern, a)
                     [] o = "failed"    -> FailedResult(nFn, nState.pattern)
                     [] o = "timeout"   -> TimeoutResult(nFn, nState.pattern)
                     [] o = "error"     -> ExceptResult(nFn, nState.pattern),
                   nTrace)
  /\ nInFlight' = nInFlight \ {nFn}
  /\ UNCHANGED <<nClient, nApiKey, nSubmits, nError, nRet>>
  /\ UNCHANGED <<graphVars, pollVars, taskVars>>

\* Step 4 of analyze_log_node, and the return of analyze_cloudwatch_log
Outputs ==
  /\ nPc = "outputs"
  /\ \E err \in [1..Len(nState.possibilities) -> {-1, 0, 1}] :
     LET lo == generate_log_output(nState, err)
         mo == generate_metrics_output(nState)
     IN IF lo.raised
        THEN /\ nPc' = "raised" /\ nError' = "KeyError"
             /\ UNCHANGED <<nState, nRet>>
        ELSE IF mo.raised
        THEN /\ nPc' = "raised"
             /\ nError' = IF nState.possibilities = <<>> THEN "ValueError" ELSE "KeyError"
             /\ nState' = Update(nState, [log_output |-> lo.out])
             /\ UNCHANGED nRet
        ELSE /\ nPc' = "returned"
             /\ nState' = Update(nState, [log_output |-> lo.out, metrics_output |-> mo.out])
             /\ nRet' = [log |-> lo.out, metrics |-> mo.out]
             /\ UNCHANGED nError
  /\ UNCHANGED <<nClient, nApiKey, nFn, nSubmits, nInFlight, nTrace>>
  /\ UNCHANGED <<graphVars, pollVars, taskVars>>

NextNode == StepSubmit \/ StepPoll \/ Outputs

SpecNode == InitNode /\ [][NextNode]_vars

(***************************************************************************)
(* Properties                                                              *)
(***************************************************************************)
ResultKeys == {"log_analysis", "metrics_analysis", "deployment_analysis"}

\* C1: reconcile_findings does not start until log_agent, metrics_agent and
\* deploy_agent have all written their result: whenever the reconciler is
\* executing, the state holds the three result entries.
C1_ReconcilerStartsAfterAllThree ==
  "reconciler" \in running => ResultKeys \subseteq DOMAIN state

\* C2: no analysis task lets a backend exception escape: a call of
\* LogAgent.analyze, DeployAgent.analyze or classify_cloudwatch_logs_groq whose
\* backend raises ends by returning, never by raising.
C2_NoBackendExceptionEscapes ==
  tBackendRaised => tStatus # "raised"

\* C3: fault isolation.  Whatever subset of the three tasks returns a degraded
\* result, the run never aborts and never gets stuck; when it has ended every
\* analysis node has run to completion and the reconciler has produced a
\* final_diagnosis carrying the three results, and synthesize returns a report
\* (with a severity and the three results) without raising.
C3_FaultIsolation ==
  /\ runStatus # "failed"
  /\ runStatus \in {"idle", "running"} => ENABLED NextGraph
  /\ runStatus = "done" =>
       /\ \A n \in AnalysisNodes : InList(n, order)
       /\ InList("reconciler", order)
       /\ "final_diagnosis" \in DOMAIN state
       /\ \A k \in ResultKeys : state["final_diagnosis"].details[k] = state[k]
  /\ report # EmptyDict =>
       /\ ~report.raised
       /\ "severity" \in DOMAIN report.out
       /\ \A k \in ResultKeys : report.out.supporting_evidence[k] = state[k]

C3_Witness ==
  /\ runStatus = "done"
  /\ \A k \in ResultKeys : IsDegraded(state[k])
  /\ DOMAIN state["deployment_analysis"] = {"error"}
  /\ report # EmptyDict
  /\ report.out.status = "Investigation Complete (Fallback Mode)"

\* C4: in one run every node executes exactly once.
C4_EveryNodeRunsOnce ==
  runStatus = "done" => \A n \in Nodes : runs[n] = 1

\* what the three tasks returned on their latest call in this run, whatever
\* order they finish in
TaskOutputs ==
  [log_payload         |-> payload,
   log_analysis        |-> LogAgent_analyze(payload, backend.log_agent).out,
   metrics_analysis    |-> MetricsAgent_analyze(payload, backend.metrics_agent),
   deployment_analysis |-> DeployAgent_analyze(backend.deploy_agent)]

\* C5: the final diagnosis is independent of completion order: in every ended
\* run, whatever the order in which the nodes returned, final_diagnosis is the
\* reconciliation of the three tasks' outputs.
C5_DiagnosisIndependentOfOrder ==
  runStatus = "done" =>
    /\ "final_diagnosis" \in DOMAIN state
    /\ state["final_diagnosis"] = reconcile_findings(TaskOutputs).out.final_diagnosis

\* an ended run in which log_agent was the last analysis task to return and
\* deploy_agent the first, with a memory diagnosis
C5_Witness ==
  /\ runStatus = "done"
  /\ Len(order) = 7
  /\ order[6] = "log_agent"
  /\ order[3] = "deploy_agent"
  /\ state["final_diagnosis"].diagnosis # "Unknown Issue"

Elapsed == now - start_time
HasHandle == submitResp = "id"

\* C6 as stated: with a job handle, a poll loop returns only after a terminal
\* status was observed or the elapsed time reached max_wait, on every path.
C6_ReturnsOnlyOnTerminalOrTimeout ==
  (pc = "done" /\ HasHandle) =>
     \/ observed \in {"completed", "failed"}
     \/ Elapsed >= max_wait

\* C6 amended: with a job handle, a poll loop returns only after a terminal
\* status was observed, after the elapsed time reached max_wait, or when a
\* poll call raised (it then returns the fallback at once).
C6_ReturnsOnlyOnTerminalTimeoutOrError ==
  (pc = "done" /\ HasHandle) =>
     \/ outcome = "Completed" /\ observed = "completed"
     \/ outcome = "Failed" /\ observed = "failed"
     \/ outcome = "TimedOut" /\ observed = "pending" /\ Elapsed >= max_wait
     \/ outcome = "Error" /\ observed = "raised"

C6_Witness ==
  /\ pc = "done" /\ HasHandle
  /\ outcome = "Error" /\ observed = "raised"
  /\ polls = 3
  /\ Elapsed < max_wait

\* C7 as stated: every poll loop returns within max_wait + interval of its
\* start, after at least one and at most 60 polls.
C7_ReturnsWithinBudgetPlusInterval ==
  (pc = "done" /\ HasHandle) =>
     /\ Elapsed <= max_wait + interval
     /\ polls >= 1 /\ polls <= 60

\* C7 amended: every poll is issued before max_wait has elapsed, so a poll
\* loop returns within max_wait + interval + the duration of its last poll
\* call, after at least one and at most 60 polls.
C7_BoundedPolling ==
  /\ pc = "poll" => Elapsed < max_wait
  /\ polls <= 60
  /\ (pc = "done" /\ HasHandle) =>
       /\ Elapsed < max_wait + lastPollDur + interval
       /\ polls >= 1

C7_Witness ==
  /\ pc = "done" /\ HasHandle
  /\ outcome = "TimedOut"
  /\ polls = 60
  /\ Elapsed > max_wait + interval

\* C8: the first completed poll ends the loop with the result of that poll's
\* answer text, the first failed poll ends it with the failure result, any
\* other status leads to a sleep of the interval and then the loop test, which
\* polls again while the elapsed time is below max_wait and otherwise ends
\* the loop as timed out; no poll is issued once a terminal status was
\* observed.  (A step that leaves pc alone is the environment's.)
C8_PollProtocol ==
  /\ [](/\ pc = "sleep" => observed = "pending"
        /\ (pc = "done" /\ outcome = "Completed") =>
              /\ observed = "completed" /\ lastResp.status = "completed"
              /\ ret = CompletedResult(fn, pattern,
                         IF AnswerText(lastResp.answer) # <<>>
                         THEN AnswerText(lastResp.answer)
                         ELSE AnswerText(lastResp.content))
        /\ (pc = "done" /\ outcome = "Failed") =>
              /\ observed = "failed" /\ lastResp.status = "failed"
              /\ ret = FailedResult(fn, pattern)
        /\ (pc = "done" /\ outcome = "TimedOut") =>
              /\ Elapsed >= max_wait /\ observed = "pending"
              /\ ret = TimeoutResult(fn, pattern)
        /\ observed \in {"completed", "failed"} => pc = "done")
  /\ [][/\ observed \in {"completed", "failed"} => polls' = polls
        /\ (pc' # pc /\ pc = "sleep") =>
              (pc' = "test" /\ now' = now + interval /\ sleeps' = sleeps + 1)
        /\ (pc' # pc /\ pc = "test" /\ Elapsed < max_wait) => pc' = "poll"
        /\ (pc' # pc /\ pc = "test" /\ Elapsed >= max_wait) =>
              (pc' = "done" /\ outcome' = "TimedOut")
        /\ (pc = "test" /\ Elapsed >= max_wait) => polls' = polls
       ]_pollVars

C8_Witness ==
  /\ pc = "done" /\ outcome = "Completed"
  /\ polls = 3 /\ sleeps = 2
  /\ fn = "classify" /\ ret = <<"timeout", 85>>

\* C9: when research() returns no request_id the function returns its default
\* at once: no poll and no sleep follows the submit.
C9_NoHandleReturnsImmediately ==
  submitResp \in {"no_id", "empty_id"} =>
     /\ pc = "done" /\ outcome = "NoHandle"
     /\ polls = 0 /\ sleeps = 0
     /\ ret = NoHandleResult(fn, pattern)

C9_Witness ==
  /\ submitResp = "no_id" /\ pc = "done"
  /\ fn = "possibilities" /\ ret = Insufficient

\* C10: once the run-level deadline has expired while a function is polling,
\* the poller stops: its next step returns as timed out, and it neither polls
\* nor sleeps again.
C10_CancellationStopsPolling ==
  [][(deadlineExpired /\ pc \in {"test", "poll", "sleep"}) =>
        (pc' = "done" /\ outcome' = "TimedOut" /\ polls' = polls /\ sleeps' = sleeps)
    ]_pollVars

\* the answer text the loop's last poll carried ('answer', else 'content')
LastAnswerName == IF lastResp.answer # "" THEN lastResp.answer ELSE lastResp.content

\* C11: NoHandle, Failed, TimedOut and Completed with an answer that has no
\* usable object all give a usable default: generate_hypothesis_with_llm
\* returns the fallback sentence with the pattern in it, and
\* generate_possibilities_with_llm returns exactly one possibility with
\* probability 1.0 and severity medium.
C11_OutcomesMapToDefaults ==
  (/\ pc = "done"
   /\ \/ outcome \in {"NoHandle", "Failed", "TimedOut"}
      \/ /\ outcome = "Completed"
         /\ \/ LastAnswerName \in {"", "prose", "empty_obj", "deep_obj"}
            \/ fn = "hypothesis" /\ LastAnswerName \in {"pattern_json", "poss_json"}
            \/ fn = "possibilities" /\ LastAnswerName \in {"pattern_json", "hyp_json"})
  =>
  /\ fn = "hypothesis" =>
       /\ ret # <<>>
       /\ ret = <<"The error pattern '", pattern,
                  "' indicates a potential issue that requires investigation.">>
  /\ fn = "possibilities" =>
       /\ Len(ret) = 1
       /\ ret[1].probability.num = ret[1].probability.den
       /\ ret[1].severity = "medium"

C11_Witness ==
  /\ pc = "done" /\ outcome = "Completed"
  /\ fn = "possibilities" /\ LastAnswerName = "pattern_json"
  /\ ret[1].cause = "Insufficient information to determine root cause"

\* C12: classify_pattern_with_llm returns (first key of the extracted object,
\* 0.85) exactly when the outcome is Completed and the answer holds a
\* non-empty object, and ("unknown", 0.5) in every other case.
C12_ClassifyResult ==
  (pc = "done" /\ fn = "classify") =>
    LET firstKey == CASE LastAnswerName = "pattern_json" -> "timeout"
                      [] LastAnswerName = "hyp_json"     -> "hypothesis"
                      [] LastAnswerName = "poss_json"    -> "possibilities"
                      [] OTHER                           -> ""
    IN IF outcome = "Completed" /\ firstKey # ""
       THEN ret = <<firstKey, 85>>
       ELSE ret = <<"unknown", 50>>

C12_Witness ==
  /\ pc = "done" /\ fn = "classify"
  /\ outcome = "Completed" /\ LastAnswerName = "empty_obj"
  /\ ret = <<"unknown", 50>>

\* the probabilities of a list are fractions over one denominator that add up to it
SumsToOne(ps) ==
  /\ Len(ps) >= 1
  /\ \A i \in 1..Len(ps) :
       /\ "probability" \in DOMAIN ps[i]
       /\ ps[i].probability.den = SumNum(ps)

\* C13: every list generate_possibilities_with_llm returns has probabilities
\* that sum to 1.0, and a completed answer whose raw probabilities sum to
\* zero gives the single fallback possibility with probability 1.0.
C13_AlwaysRenormalized ==
  (task = "generate_possibilities_with_llm" /\ tStatus = "returned") =>
    /\ SumsToOne(tRet)
    /\ SumNum(tArgs) = 0 =>
         /\ Len(tRet) = 1
         /\ tRet[1].probability = Prob(100, 100)
         /\ tRet[1].severity = "medium"

\* C14: when the raw probabilities of a completed answer sum to a positive
\* total, every returned probability is the raw one (0 when missing) divided
\* by the total, they sum to 1.0, and order and other fields are unchanged.
C14_NormalizedByRawSum ==
  (task = "generate_possibilities_with_llm" /\ tStatus = "returned"
     /\ SumNum(tArgs) > 0) =>
    /\ Len(tRet) = Len(tArgs)
    /\ SumsToOne(tRet)
    /\ \A i \in 1..Len(tArgs) :
         /\ tRet[i].probability.den = SumNum(tArgs)
         /\ tRet[i].probability.num =
              (IF "probability" \in DOMAIN tArgs[i] THEN tArgs[i].probability.num ELSE 0)
         /\ DOMAIN tRet[i] = DOMAIN tArgs[i] \cup {"probability"}
         /\ \A k \in DOMAIN tArgs[i] \ {"probability"} : tRet[i][k] = tArgs[i][k]

C14_Witness ==
  /\ task = "generate_possibilities_with_llm" /\ tStatus = "returned"
  /\ Len(tArgs) = 2
  /\ "probability" \notin DOMAIN tArgs[1]
  /\ "probability" \in DOMAIN tArgs[2]
  /\ tArgs[2].probability = Prob(60, 100)
  /\ tRet[1].probability = Prob(0, 60) /\ tRet[1].cause = tArgs[1].cause
  /\ tRet[2].probability = Prob(60, 60)

\* the braces of a text, scanned from depth d, never close below zero and
\* end at depth zero
RECURSIVE BraceDepthOk(_, _)
BraceDepthOk(text, d) ==
  IF text = <<>> THEN d = 0
  ELSE IF Head(text).t = "lb" THEN BraceDepthOk(Tail(text), d + 1)
  ELSE IF Head(text).t = "rb" THEN d > 0 /\ BraceDepthOk(Tail(text), d - 1)
  ELSE BraceDepthOk(Tail(text), d)

Balanced(text) == BraceDepthOk(text, 0)
NoBraces(text) == \A i \in 1..Len(text) : text[i].t \notin {"lb", "rb"}

\* the object whose members lie between positions i and j of a text: its
\* keys in the order they first appear, each with the value of its last member
Members(text, i, j) ==
  LET inside   == (i + 1)..(j - 1)
      firsts   == {n \in inside : \A m \in (i + 1)..(n - 1) : text[m].k # text[n].k}
      Nth(r)   == CHOOSE n \in firsts : Cardinality({m \in firsts : m <= n}) = r
      LastOf(k) == CHOOSE n \in inside :
                     text[n].k = k /\ \A m \in (n + 1)..(j - 1) : text[m].k # k
  IN [r \in 1..Cardinality(firsts) |->
        [k |-> text[Nth(r)].k, v |-> text[LastOf(text[Nth(r)].k)].v]]

IsObjectAt(text, i, j) ==
  /\ i < j /\ text[i].t = "lb" /\ text[j].t = "rb"
  /\ \A n \in (i + 1)..(j - 1) : text[n].t = "kv"

\* exactly one well-formed object, with prose before and after it
OneObjectInProse(text, i, j) ==
  /\ IsObjectAt(text, i, j)
  /\ \A n \in (1..(i - 1)) \cup ((j + 1)..Len(text)) : text[n].t = "prose"

\* C15: the result is empty for every text whose braces are absent or
\* unbalanced, and is the parsed object for every text that holds exactly
\* one well-formed object surrounded by prose; no call raises.
C15_ExtractJson ==
  (task = "_extract_json_from_response" /\ tStatus # "running") =>
    /\ tStatus = "returned"
    /\ (NoBraces(tArgs) \/ ~Balanced(tArgs)) => tRet = <<>>
    /\ \A i, j \in 1..Len(tArgs) :
         OneObjectInProse(tArgs, i, j) => tRet = Members(tArgs, i, j)

\* synthesize returned through _fallback_synthesis
FallbackTaken == "fallback_reason" \in DOMAIN tRet

SynthesizeReturned == task = "InvestigationAgent.synthesize" /\ tStatus = "returned"

AllDegraded ==
  /\ IsDegraded(tArgs.log_analysis)
  /\ IsDegraded(tArgs.metrics_analysis)
  /\ IsDegraded(tArgs.deployment_analysis)

SomeDegraded ==
  \/ IsDegraded(tArgs.log_analysis)
  \/ IsDegraded(tArgs.metrics_analysis)
  \/ IsDegraded(tArgs.deployment_analysis)

\* C16: synthesize takes the fallback path exactly when the backend call
\* raised or its answer could not be parsed into a report object, whatever
\* the three task results are (degraded ones included), and it never raises.
C16_FallbackOnlyOnBackendFailure ==
  (task = "InvestigationAgent.synthesize" /\ tStatus # "running") =>
    /\ tStatus = "returned"
    /\ FallbackTaken <=> tArgs.b \in {"raise", "garbage", "list_report"}

C16_Witness ==
  /\ SynthesizeReturned /\ AllDegraded
  /\ tArgs.b = "fenced_report"
  /\ ~FallbackTaken
  /\ tRet.status = "Investigation Complete"

\* C17: on every return path supporting_evidence holds the three results as
\* they were passed in; with three degraded results and a failing backend
\* the report has confidence_level "Low" and a fallback-mode status.
C17_SupportingEvidence ==
  SynthesizeReturned =>
    /\ tRet.supporting_evidence =
         [log_analysis |-> tArgs.log_analysis,
          metrics_analysis |-> tArgs.metrics_analysis,
          deployment_analysis |-> tArgs.deployment_analysis]
    /\ (AllDegraded /\ tArgs.b \in {"raise", "garbage", "list_report"}) =>
         /\ tRet.confidence_level = "Low"
         /\ tRet.status = "Investigation Complete (Fallback Mode)"

C17_Witness ==
  /\ SynthesizeReturned /\ AllDegraded
  /\ tArgs.b = "raise"
  /\ tRet.confidence_level = "Low"
  /\ tRet.supporting_evidence.deployment_analysis = [error |-> "FileNotFoundError"]

StableFields == {"status", "severity", "root_cause", "diagnosis", "correlation",
                 "affected_components", "recommendations", "confidence_level",
                 "supporting_evidence"}

\* C18: every result handed to the caller, from synthesize on its primary and
\* fallback paths and from reconcile_findings, carries the whole stable field
\* set, with the three results under supporting_evidence.
C18_CompleteDiagnosis ==
  /\ SynthesizeReturned =>
       /\ StableFields \subseteq DOMAIN tRet
       /\ DOMAIN tRet.supporting_evidence = ResultKeys
  /\ (task = "reconcile_findings" /\ tStatus = "returned") =>
       /\ StableFields \subseteq DOMAIN tRet.final_diagnosis
       /\ DOMAIN tRet.final_diagnosis.supporting_evidence = ResultKeys

\* C19: in fallback synthesis the severity is "High" or "Critical" whenever a
\* log issue mentions memory or error, and whenever one of the three results
\* is degraded (carries an error).
C19_SeverityEscalation ==
  (SynthesizeReturned /\ FallbackTaken) =>
    /\ (\E i \in 1..Len(Get(tArgs.log_analysis, "issues", <<>>)) :
          \/ HasSubstr(Lower(tArgs.log_analysis.issues[i]), "memory")
          \/ HasSubstr(Lower(tArgs.log_analysis.issues[i]), "error"))
         => tRet.severity \in {"High", "Critical"}
    /\ SomeDegraded => tRet.severity \in {"High", "Critical"}

\* C20: in fallback synthesis the severity is "Critical" whenever there is a
\* metrics alert and the metrics status is critical, whatever the log issues
\* and the deployment risk level are.
C20_CriticalOnCriticalMetrics ==
  (/\ SynthesizeReturned /\ FallbackTaken
   /\ Get(tArgs.metrics_analysis, "alerts", <<>>) # <<>>
   /\ Get(tArgs.metrics_analysis, "status", "") = "critical")
  => tRet.severity = "Critical"

C20_Witness ==
  /\ SynthesizeReturned /\ FallbackTaken
  /\ tArgs.log_analysis = LogObjOOM
  /\ tArgs.metrics_analysis = [status |-> "critical", alerts |-> <<"CPU high">>]
  /\ tArgs.deployment_analysis = DepObjMem
  /\ tRet.severity = "Critical"

\* a log issue, or a metrics alert, of the inputs carries the word memory
LogIssueMentionsMemory ==
  \E i \in 1..Len(Get(tArgs.log_analysis, "issues", <<>>)) :
    tArgs.log_analysis.issues[i] \in {"out of memory", "Memory limit exceeded"}

AlertMentionsMemory ==
  \E i \in 1..Len(Get(tArgs.metrics_analysis, "alerts", <<>>)) :
    tArgs.metrics_analysis.alerts[i] \in
      {"MemoryUsed", "High MemoryUsed detected (Fallback)"}

ChangesHaveMemorySize ==
  "memory_size" \in Get(tArgs.deployment_analysis, "changes", {})

\* C21 as stated: in fallback synthesis root_cause is the memory_size
\* reduction statement (with severity at least "Medium") when an issue text
\* mentions memory and the changes contain memory_size, and the generic
\* statement in every other case.
C21_RootCause ==
  (SynthesizeReturned /\ FallbackTaken) =>
    IF (LogIssueMentionsMemory \/ AlertMentionsMemory) /\ ChangesHaveMemorySize
    THEN /\ tRet.root_cause =
              "Memory exhaustion likely caused by recent memory_size reduction in deployment"
         /\ tRet.severity \in {"Medium", "High", "Critical"}
    ELSE tRet.root_cause =
           "Unable to determine root cause - manual investigation required"

\* C21 amended: root_cause is the memory_size reduction statement when an
\* issue text mentions memory and the changes contain memory_size, the
\* "memory leaks or increased load" statement when an issue text mentions
\* memory and the changes do not contain memory_size, and the generic
\* statement otherwise; when the mention is in a log issue the severity is
\* "High" or "Critical".
C21_RootCauseThreeWay ==
  (SynthesizeReturned /\ FallbackTaken) =>
    /\ tRet.root_cause =
         (IF LogIssueMentionsMemory \/ AlertMentionsMemory
          THEN IF ChangesHaveMemorySize
               THEN "Memory exhaustion likely caused by recent memory_size reduction in deployment"
               ELSE "Memory exhaustion detected - check for memory leaks or increased load"
          ELSE "Unable to determine root cause - manual investigation required")
    /\ LogIssueMentionsMemory => tRet.severity \in {"High", "Critical"}

C21_Witness ==
  /\ SynthesizeReturned /\ FallbackTaken
  /\ tArgs.log_analysis = [issues |-> <<"CPU high">>, summary |-> "cpu"]
  /\ tArgs.metrics_analysis = [status |-> "healthy", alerts |-> <<"MemoryUsed">>]
  /\ tArgs.deployment_analysis = DepObjNone
  /\ tRet.root_cause =
       "Memory exhaustion detected - check for memory leaks or increased load"
  /\ tRet.severity = "Low"

\* position of a severity level in the order Low < Medium < High < Critical
Rank(sev) ==
  CASE sev = "Low" -> 1 [] sev = "Medium" -> 2 [] sev = "High" -> 3
    [] sev = "Critical" -> 4

Max3(a, b, c) ==
  IF a >= b /\ a >= c THEN a ELSE IF b >= c THEN b ELSE c

\* the level each rule assigns when it triggers on the inputs (1 when it
\* does not trigger)
LogRuleLevel ==
  IF \E i \in 1..Len(Get(tArgs.log_analysis, "issues", <<>>)) :
       \/ HasSubstr(Lower(tArgs.log_analysis.issues[i]), "memory")
       \/ HasSubstr(Lower(tArgs.log_analysis.issues[i]), "error")
  THEN 3 ELSE 1

MetricsRuleLevel ==
  IF Get(tArgs.metrics_analysis, "alerts", <<>>) = <<>> THEN 1
  ELSE IF Get(tArgs.metrics_analysis, "status", "") = "critical" THEN 4
  ELSE IF Get(tArgs.metrics_analysis, "status", "") = "degraded" THEN 3
  ELSE 1

DeployRuleLevel ==
  IF Get(tArgs.deployment_analysis, "risk_level", "Low") \in {"High", "Medium"}
  THEN 2 ELSE 1

\* C29: across the rule steps of _fallback_synthesis (log issues, metrics
\* alerts, deployment risk) the severity never decreases in the order
\* Low < Medium < High < Critical, and the final severity is the maximum
\* level that a triggered rule assigns.
C29_SeverityOnlyEscalates ==
  (SynthesizeReturned /\ FallbackTaken) =>
    LET s1 == SeverityAfterLogs(Get(tArgs.log_analysis, "issues", <<>>))
        s2 == SeverityAfterMetrics(s1, tArgs.metrics_analysis)
        s3 == SeverityAfterDeploy(s2,
                Get(tArgs.deployment_analysis, "risk_level", "Low"))
    IN /\ Rank("Low") <= Rank(s1)
       /\ Rank(s1) <= Rank(s2)
       /\ Rank(s2) <= Rank(s3)
       /\ tRet.severity = s3
       /\ Rank(tRet.severity) =
            Max3(LogRuleLevel, MetricsRuleLevel, DeployRuleLevel)

C29_Witness ==
  /\ SynthesizeReturned /\ FallbackTaken
  /\ tArgs.log_analysis = LogObjOOM
  /\ tArgs.metrics_analysis = [status |-> "healthy", alerts |-> <<"MemoryUsed">>]
  /\ tArgs.deployment_analysis = [changes |-> {}, risk_level |-> "Medium"]
  /\ tRet.severity = "High"

\* C25: whenever the deployment-risk task fails (diff inputs unreadable,
\* backend error or malformed response) DeployAgent.analyze returns a degraded
\* result with an empty changes map and risk level "Low"; when the diff inputs
\* are unreadable the result carries nothing of the backend.
C25_DeploySafeDefault ==
  (task = "DeployAgent.analyze" /\ tStatus = "returned") =>
    /\ tArgs.b \in {"unreadable", "raise", "garbage"} =>
         /\ IsDegraded(tRet)
         /\ "changes" \in DOMAIN tRet /\ tRet.changes = {}
         /\ "risk_level" \in DOMAIN tRet /\ tRet.risk_level = "Low"
    /\ tArgs.b = "unreadable" => ~tBackendRaised

\* C30: reconcile_findings sets diagnosis to "Potential Memory Exhaustion"
\* exactly when "out of memory" is an element of the log issues or
\* "MemoryUsed" is an element of the metrics alerts, appends the
\* configuration-change suffix exactly when in addition the deployment
\* changes contain memory_size, and sets "Unknown Issue" otherwise; a missing
\* or error-only result is read as empty, and the three analyses are copied
\* unchanged into details.
C30_ReconcileDiagnosis ==
  (task = "reconcile_findings" /\ tStatus # "running") =>
    LET la  == Get(tArgs, "log_analysis", EmptyDict)
        ma  == Get(tArgs, "metrics_analysis", EmptyDict)
        da  == Get(tArgs, "deployment_analysis", EmptyDict)
        li  == Get(la, "issues", <<>>)
        al  == Get(ma, "alerts", <<>>)
        mem == \/ \E i \in 1..Len(li) : li[i] = "out of memory"
               \/ \E i \in 1..Len(al) : al[i] = "MemoryUsed"
        ms  == "memory_size" \in Get(da, "changes", {})
    IN /\ tStatus = "returned"
       /\ tRet.final_diagnosis.diagnosis =
            (IF mem
             THEN IF ms
                  THEN "Potential Memory Exhaustion likely caused by recent configuration change (memory reduction)."
                  ELSE "Potential Memory Exhaustion"
             ELSE "Unknown Issue")
       /\ tRet.final_diagnosis.details =
            [log_analysis |-> la, metrics_analysis |-> ma,
             deployment_analysis |-> da]

C30_Witness ==
  /\ task = "reconcile_findings" /\ tStatus = "returned"
  /\ tArgs = [log_analysis |-> LogObjMem, deployment_analysis |-> DepObjMem]
  /\ tRet.final_diagnosis.diagnosis = "Unknown Issue"
  /\ tRet.final_diagnosis.details.metrics_analysis = EmptyDict

\* the node that made the i-th write of the current superstep
WriterOf(i) == order[Len(order) - Len(writes) + i]

\* C24: each analysis node writes only its own result slot (run_log_agent
\* log_analysis, run_metrics_agent metrics_analysis, run_deploy_agent
\* deployment_analysis), no other node writes a result slot, and no analysis
\* node modifies log_payload or another node's slot.
C24_OneWriterPerSlot ==
  /\ Len(writes) <= Len(order)
  /\ \A i \in 1..Len(writes) :
       /\ WriterOf(i) = "log_agent"     => DOMAIN writes[i] = {"log_analysis"}
       /\ WriterOf(i) = "metrics_agent" => DOMAIN writes[i] = {"metrics_analysis"}
       /\ WriterOf(i) = "deploy_agent"  => DOMAIN writes[i] = {"deployment_analysis"}
       /\ WriterOf(i) \notin AnalysisNodes => (DOMAIN writes[i]) \cap ResultKeys = {}
  /\ "log_payload" \in DOMAIN state => state.log_payload = payload

C24_Witness ==
  /\ runStatus = "running"
  /\ AnalysisNodes \subseteq finished
  /\ Len(writes) = 3
  /\ \A i \in 1..3 : WriterOf(i) \in AnalysisNodes
  /\ \A k \in ResultKeys : \E i \in 1..3 : DOMAIN writes[i] = {k}

HighMemoryPayload == [cpu_utilization |-> "10%", memory_utilization |-> "95%"]

HasFallbackAlert(result) ==
  /\ IsDegraded(result)
  /\ InList("High MemoryUsed detected (Fallback)", Get(result, "alerts", <<>>))

\* C26: when the metrics task, classify_cloudwatch_logs_groq, receives
\* {"cpu_utilization": "10%", "memory_utilization": "95%"} and its backend is
\* unavailable, the call returns, and what it returns is a degraded result
\* whose alerts contain "High MemoryUsed detected (Fallback)".
C26_MetricsFallbackAlert ==
  (/\ task = "classify_cloudwatch_logs_groq" /\ tStatus # "running"
   /\ tLogs = Get(HighMemoryPayload, "logs", <<>>)
   /\ \A i \in 1..Len(tArgs) : tArgs[i] = "raise")
  =>
    /\ tStatus = "returned"
    /\ HasFallbackAlert(tRet)

\* the classification step of the run has returned
Classified == \E i \in 1..Len(nTrace) : nTrace[i].e = "return" /\ nTrace[i].f = "classify"

\* C22: the severity recorded by analyze_log_node is the static table's value
\* for the classified pattern (memory, permission, network, resource,
\* runtime, handler: critical; timeout, throttling: high; cold_start,
\* unknown: medium) and "medium" for every pattern not in the table; the
\* fallback classification ("unknown", 0.5) gives "medium".
C22_SeverityTable ==
  Classified =>
    LET ec == nState.error_classification
        expected ==
          IF ec.pattern \in {"memory", "permission", "network", "resource",
                             "runtime", "handler"} THEN "critical"
          ELSE IF ec.pattern \in {"timeout", "throttling"} THEN "high"
          ELSE "medium"
    IN /\ ec.pattern = nState.pattern
       /\ ec.severity = expected
       /\ (ec.pattern = "unknown" /\ ec.confidence = 50) => ec.severity = "medium"
       /\ nPc = "returned" =>
            nRet.metrics.error_classification.severity_level = expected

C22_Witness ==
  /\ nPc = "returned"
  /\ nState.pattern = "Timeout"
  /\ nState.error_classification.confidence = 85
  /\ nRet.metrics.error_classification.severity_level = "medium"

\* C23: a missing credential is fatal: when no client is supplied and
\* TAVILY_API_KEY is absent, the run raises before any submit or poll and
\* returns no value.
C23_MissingCredentialFatal ==
  (nClient = "none" /\ nApiKey = "unset" /\ nPc # "idle") =>
    /\ nPc \in {"submit", "raised"}
    /\ nPc = "submit" => ENABLED StepSubmit
    /\ nSubmits = 0 /\ nTrace = <<>> /\ nInFlight = {}
    /\ nRet = EmptyDict
    /\ nState = InitialState

C23_Witness ==
  /\ nClient = "none" /\ nApiKey = "unset"
  /\ nPc = "raised" /\ nError = "ValueError: TAVILY_API_KEY not found"
  /\ nSubmits = 0

\* C27: given a client, analyze_log_node / analyze_cloudwatch_log never
\* raises: for every combination of outcomes of the three steps, an empty
\* possibility list and entries lacking fields included, it returns a
\* {log, metrics} result.
C27_NeverRaises ==
  nClient = "given" =>
    /\ nPc # "raised"
    /\ nPc = "returned" => DOMAIN nRet = {"log", "metrics"}

SubmitIndex(f) == CHOOSE i \in 1..Len(nTrace) : nTrace[i].e = "submit" /\ nTrace[i].f = f
ReturnIndex(f) == CHOOSE i \in 1..Len(nTrace) : nTrace[i].e = "return" /\ nTrace[i].f = f
Submitted(f) == \E i \in 1..Len(nTrace) : nTrace[i].e = "submit" /\ nTrace[i].f = f
Returned(f)  == \E i \in 1..Len(nTrace) : nTrace[i].e = "return" /\ nTrace[i].f = f

\* C28: analyze_log_node runs its three jobs strictly in sequence: the
\* hypothesis job is submitted only after the classification has returned
\* and the possibilities job only after the hypothesis has returned; a later
\* step is still attempted, with the pattern of the classification
\* ("unknown" after a fallback), when an earlier step fell back; a run makes
\* at most three submits and never has two jobs in flight.
C28_StrictSequence ==
  /\ Submitted("hypothesis") =>
       Returned("classify") /\ ReturnIndex("classify") < SubmitIndex("hypothesis")
  /\ Submitted("possibilities") =>
       Returned("hypothesis") /\ ReturnIndex("hypothesis") < SubmitIndex("possibilities")
  /\ \A f \in Functions :
       Cardinality({i \in 1..Len(nTrace) : nTrace[i].e = "submit" /\ nTrace[i].f = f}) <= 1
  /\ \A i \in 1..Len(nTrace) :
       (nTrace[i].e = "submit" /\ nTrace[i].f # "classify") =>
          nTrace[i].p = nState.error_classification.pattern
  /\ nPc \in {"outputs", "returned"} =>
       \A f \in Functions : Submitted(f) /\ Returned(f)
  /\ nSubmits <= 3
  /\ Cardinality(nInFlight) <= 1
  /\ nInFlight # {} => nPc = "poll" /\ nInFlight = {nFn}

\* every step fell back and the run still went through the three steps
C28_Witness ==
  /\ nPc = "returned"
  /\ nSubmits = 3
  /\ nState.pattern = "unknown" /\ nState.error_classification.confidence = 50
  /\ nState.possibilities = ErrorDuring
  /\ nTrace[3] = Event("submit", "hypothesis", "unknown")

\* the i-th result carries the i-th log's timestamp and message, and the
\* default classification when that log's response did not parse
ResultMatchesLog(results, i) ==
  /\ results[i].timestamp = tLogs[i].timestamp
  /\ results[i].message = tLogs[i].message
  /\ tArgs[i] = "garbage" =>
       /\ results[i].classification.severity = "UNKNOWN"
       /\ results[i].classification.category = "UNKNOWN"
       /\ results[i].classification.action_required = "INVESTIGATE"
       /\ results[i].classification.confidence = 0
  /\ tArgs[i] = "json_error" => results[i].classification.severity = "ERROR"
  /\ tArgs[i] = "json_info"  => results[i].classification.severity = "INFO"

\* C31: classify_cloudwatch_logs_groq returns exactly one result per input
\* log, in input order, each with that log's timestamp and message; a
\* response that cannot be parsed gives the default classification (severity
\* UNKNOWN, category UNKNOWN, action INVESTIGATE, confidence 0.0) for that
\* log only, and the remaining logs are still processed.
C31_OneResultPerLog ==
  task = "classify_cloudwatch_logs_groq" =>
    /\ Len(tResults) <= Len(tLogs)
    /\ \A i \in 1..Len(tResults) : ResultMatchesLog(tResults, i)
    /\ (tStatus = "running" /\ Len(tResults) < Len(tLogs)) => ENABLED ClassifyLog
    /\ (tStatus = "running" /\ Len(tResults) = Len(tLogs)) => ENABLED ClassifyReturn
    /\ tStatus = "returned" =>
         /\ Len(tRet) = Len(tLogs)
         /\ \A i \in 1..Len(tRet) : ResultMatchesLog(tRet, i)

C31_Witness ==
  /\ task = "classify_cloudwatch_logs_groq" /\ tStatus = "returned"
  /\ tArgs = <<"garbage", "json_error">>
  /\ Len(tRet) = 2
  /\ tRet[1].timestamp = 2 /\ tRet[2].timestamp = 1
  /\ tRet[1].classification = DefaultClassification
  /\ tRet[2].classification.severity = "ERROR"

\* the envelope of the call decodes to a payload object
WellFormedEnvelope == tArgs.fault = "none"

\* C32: the handler processes every log event of a well-formed payload, in
\* order, and returns statusCode 200; a message that is not JSON is handled
\* as plain text and does not abort the later events; a payload whose
\* envelope cannot be decoded makes the handler raise and return nothing.
C32_HandlerProcessesEveryEvent ==
  task = "handler" =>
    /\ WellFormedEnvelope =>
         /\ tStatus # "raised"
         /\ \A i \in 1..Len(tResults) :
              /\ tResults[i].message = Get(tArgs.events[i], "message", NoneMessage)
              /\ tResults[i].line =
                   (IF tResults[i].message \in {"json_object", "json_number",
                                                "huge_integer"}
                    THEN "Processed Structured Log" ELSE "Processed Text Log")
         /\ tStatus = "returned" =>
              /\ tRet.statusCode = 200
              /\ Len(tResults) = Len(tArgs.events)
    /\ ~WellFormedEnvelope =>
         /\ tStatus \in {"running", "raised"}
         /\ tRet = <<>>

====
